---- MODULE Spec2Model ----
(***************************************************************************)
(* Model of the stage-2 harvesting core of gun-violence-data:              *)
(*   scripts/stage2_extractor.py  (Field Extractor, pure functions)        *)
(*   scripts/stage2_session.py    (Fetch Session, retrying GET)            *)
(*                                                                         *)
(* Python strings are modelled as sequences of one-character strings, so   *)
(* that find, slicing, lower, replace, strip, join and the substring test  *)
(* are computed the way the code computes them.                            *)
(***************************************************************************)
EXTENDS Integers, Sequences, FiniteSets, TLC

\* ---------------------------------------------------------------- bounds
MaxGroups == 2          \* <ul> lists in a Participants / Guns Involved section
MaxSpans == 2           \* <span> elements in a Location section
MaxDistrictLines == 2   \* <br>-terminated lines in a District section
MaxAttempts == 3        \* GET attempts the environment answers with a retryable outcome
MaxFuzz == 4            \* magnitude of the (discretised) jitter exponent

\* ------------------------------------------------------- Python strings
None == [t |-> "null"]
Num(n) == [t |-> "num", n |-> n]
Text(s) == [t |-> "str", s |-> s]

\* The characters the model's inputs use, in code-point order.
Alphabet ==
  <<" ", ",", "-", ".", "/", "0", "1", "2", "3", "4", "5", "6", "7", "8", "9", ":", ";", "=",
    "A", "B", "C", "D", "E", "F", "G", "H", "I", "J", "K", "L", "M",
    "N", "O", "P", "Q", "R", "S", "T", "U", "V", "W", "X", "Y", "Z", "_",
    "a", "b", "c", "d", "e", "f", "g", "h", "i", "j", "k", "l", "m",
    "n", "o", "p", "q", "r", "s", "t", "u", "v", "w", "x", "y", "z", "|">>

Ord(c) == CHOOSE i \in 1..Len(Alphabet) : Alphabet[i] = c

Digits == <<"0", "1", "2", "3", "4", "5", "6", "7", "8", "9">>

IsDigit(c) == \E i \in 1..10 : Digits[i] = c

DigitVal(c) == (CHOOSE i \in 1..10 : Digits[i] = c) - 1

\* str.lower() on one character
LowerChar(c) ==
  LET o == Ord(c) IN
  IF o >= Ord("A") /\ o <= Ord("Z") THEN Alphabet[o + (Ord("a") - Ord("A"))] ELSE c

\* s.lower()
Lower(s) == [i \in 1..Len(s) |-> LowerChar(s[i])]

\* s.replace(a, b) for one-character a and b
ReplaceChar(s, a, b) == [i \in 1..Len(s) |-> IF s[i] = a THEN b ELSE s[i]]

\* s[from:] with a 0-based start, as Python slices (empty past the end)
SliceFrom(s, from) == IF from >= Len(s) THEN <<>> ELSE SubSeq(s, from + 1, Len(s))

\* s[:to] with a 0-based, possibly negative, end, as Python slices
SliceTo(s, to) ==
  LET e == IF to < 0 THEN Len(s) + to ELSE to IN
  IF e <= 0 THEN <<>> ELSE IF e >= Len(s) THEN s ELSE SubSeq(s, 1, e)

\* sub occurs in s at 0-based offset i
OccursAt(s, sub, i) ==
  /\ i + Len(sub) <= Len(s)
  /\ \A j \in 1..Len(sub) : s[i + j] = sub[j]

\* s.find(sub): the lowest 0-based index, or -1
Find(s, sub) ==
  IF \E i \in 0..Len(s) : OccursAt(s, sub, i)
  THEN CHOOSE i \in 0..Len(s) :
         OccursAt(s, sub, i) /\ \A k \in 0..(i - 1) : ~OccursAt(s, sub, k)
  ELSE -1

\* sub in s
Contains(s, sub) == Find(s, sub) # -1

RECURSIVE Join(_, _)
\* sep.join(items)
Join(sep, items) ==
  IF items = <<>> THEN <<>>
  ELSE IF Len(items) = 1 THEN items[1]
  ELSE items[1] \o sep \o Join(sep, Tail(items))

RECURSIVE Strip(_)
\* s.strip() for the blank character
Strip(s) ==
  IF s = <<>> THEN s
  ELSE IF Head(s) = " " THEN Strip(Tail(s))
  ELSE IF s[Len(s)] = " " THEN Strip(SubSeq(s, 1, Len(s) - 1))
  ELSE s

RECURSIVE StrOfNat(_)
\* str(n) for n >= 0
StrOfNat(n) == IF n < 10 THEN <<Digits[n + 1]>> ELSE StrOfNat(n \div 10) \o <<Digits[(n % 10) + 1]>>

RECURSIVE NatOfDigits(_)
NatOfDigits(s) ==
  IF s = <<>> THEN 0 ELSE NatOfDigits(SubSeq(s, 1, Len(s) - 1)) * 10 + DigitVal(s[Len(s)])

\* int(s) accepts, over this alphabet, blanks around an optional minus sign
\* followed by digits that single underscores may group
IntParses(s) ==
  LET b == Strip(s)
      u == IF b # <<>> /\ b[1] = "-" THEN Tail(b) ELSE b
  IN /\ u # <<>> /\ IsDigit(u[1]) /\ IsDigit(u[Len(u)])
     /\ \A i \in 2..(Len(u) - 1) :
          IsDigit(u[i]) \/ (u[i] = "_" /\ IsDigit(u[i - 1]) /\ IsDigit(u[i + 1]))

\* int(s) where it is accepted
IntOf(s) ==
  IF Strip(s)[1] = "-"
  THEN 0 - NatOfDigits(SelectSeq(Strip(s), IsDigit))
  ELSE NatOfDigits(SelectSeq(Strip(s), IsDigit))

\* a < b in Python's string order (by code point, shorter prefix first)
RECURSIVE StrLess(_, _)
StrLess(a, b) ==
  IF b = <<>> THEN FALSE
  ELSE IF a = <<>> THEN TRUE
  ELSE IF Head(a) = Head(b) THEN StrLess(Tail(a), Tail(b))
  ELSE Ord(Head(a)) < Ord(Head(b))

\* the outcome of a Python call: a value, or an exception that was raised
Ok(v) == [ok |-> TRUE, val |-> v]
Raise(cls) == [ok |-> FALSE, exc |-> cls]


\* ------------------------------------------------------ stage2_extractor
Field(name, value) == [name |-> name, value |-> value]

RECURSIVE InsertByName(_, _)
\* one step of a stable sort: f goes after every field whose name is not greater
InsertByName(sorted, f) ==
  IF sorted = <<>> THEN <<f>>
  ELSE IF StrLess(f.name, Head(sorted).name) THEN <<f>> \o sorted
  ELSE <<Head(sorted)>> \o InsertByName(Tail(sorted), f)

RECURSIVE SortedByName(_)
\* sorted(fields, key=lambda f: f.name)
SortedByName(fields) ==
  IF fields = <<>> THEN <<>>
  ELSE InsertByName(SortedByName(SubSeq(fields, 1, Len(fields) - 1)), fields[Len(fields)])

\* the literal list handed to sorted(), in source order
FieldNameList ==
  <<
    <<"l", "a", "t", "i", "t", "u", "d", "e">>,   \* latitude
    <<"l", "o", "n", "g", "i", "t", "u", "d", "e">>,   \* longitude
    <<"l", "o", "c", "a", "t", "i", "o", "n", "_", "d", "e", "s", "c", "r", "i", "p", "t", "i", "o", "n">>,   \* location_description

    <<"p", "a", "r", "t", "i", "c", "i", "p", "a", "n", "t", "_", "t", "y", "p", "e">>,   \* participant_type
    <<"p", "a", "r", "t", "i", "c", "i", "p", "a", "n", "t", "_", "n", "a", "m", "e">>,   \* participant_name
    <<"p", "a", "r", "t", "i", "c", "i", "p", "a", "n", "t", "_", "a", "g", "e">>,   \* participant_age
    <<"p", "a", "r", "t", "i", "c", "i", "p", "a", "n", "t", "_", "a", "g", "e", "_", "g", "r", "o", "u", "p">>,   \* participant_age_group
    <<"p", "a", "r", "t", "i", "c", "i", "p", "a", "n", "t", "_", "g", "e", "n", "d", "e", "r">>,   \* participant_gender
    <<"p", "a", "r", "t", "i", "c", "i", "p", "a", "n", "t", "_", "s", "t", "a", "t", "u", "s">>,   \* participant_status
    <<"p", "a", "r", "t", "i", "c", "i", "p", "a", "n", "t", "_", "r", "e", "l", "a", "t", "i", "o", "n", "s", "h", "i", "p">>,   \* participant_relationship

    <<"i", "n", "c", "i", "d", "e", "n", "t", "_", "c", "h", "a", "r", "a", "c", "t", "e", "r", "i", "s", "t", "i", "c", "s">>,   \* incident_characteristics

    <<"n", "o", "t", "e", "s">>,   \* notes

    <<"n", "_", "g", "u", "n", "s", "_", "i", "n", "v", "o", "l", "v", "e", "d">>,   \* n_guns_involved
    <<"g", "u", "n", "_", "t", "y", "p", "e">>,   \* gun_type
    <<"g", "u", "n", "_", "s", "t", "o", "l", "e", "n">>,   \* gun_stolen

    <<"s", "o", "u", "r", "c", "e", "s">>,   \* sources

    <<"c", "o", "n", "g", "r", "e", "s", "s", "i", "o", "n", "a", "l", "_", "d", "i", "s", "t", "r", "i", "c", "t">>,   \* congressional_district
    <<"s", "t", "a", "t", "e", "_", "s", "e", "n", "a", "t", "e", "_", "d", "i", "s", "t", "r", "i", "c", "t">>,   \* state_senate_district
    <<"s", "t", "a", "t", "e", "_", "h", "o", "u", "s", "e", "_", "d", "i", "s", "t", "r", "i", "c", "t">>   \* state_house_district
  >>

ALL_FIELD_NAMES ==
  LET byName == SortedByName([i \in 1..Len(FieldNameList) |-> Field(FieldNameList[i], None)])
  IN [i \in 1..Len(byName) |-> byName[i].name]

NIL_FIELDS == [i \in 1..Len(ALL_FIELD_NAMES) |-> Field(ALL_FIELD_NAMES[i], None)]

Range(s) == {s[i] : i \in 1..Len(s)}

\* _out_name(in_name, prefix)
_out_name(in_name, prefix) == prefix \o ReplaceChar(Lower(in_name), " ", "_")

\* a dict is the sequence of its <<key, value>> items in insertion order
DictKeys(d) == {d[i][1] : i \in 1..Len(d)}

RECURSIVE GetDictLoop(_, _, _)
\* the loop of _getdict over the remaining lines, d being the dict built so far
GetDictLoop(lines, apply, d) ==
  IF lines = <<>> THEN Ok(d)
  ELSE
    LET line == Head(lines)
        index == Find(line, <<":">>)
        key == SliceTo(line, index)
        value == SliceFrom(line, index + 2)
    IN IF line = <<>> THEN GetDictLoop(Tail(lines), apply, d)
       ELSE IF index = -1 THEN Raise("AssertionError")
       ELSE IF key \in DictKeys(d) THEN Raise("AssertionError")
       ELSE IF apply = "int"
            THEN IF IntParses(value)
                 THEN GetDictLoop(Tail(lines), apply, Append(d, <<key, Num(IntOf(value))>>))
                 ELSE Raise("ValueError")
            ELSE GetDictLoop(Tail(lines), apply, Append(d, <<key, Text(value)>>))

\* d[key] = value on a dict kept as its items in insertion order
DictSet(d, key, value) ==
  IF key \in DictKeys(d)
  THEN [i \in 1..Len(d) |-> IF d[i][1] = key THEN <<key, value>> ELSE d[i]]
  ELSE Append(d, <<key, value>>)

RECURSIVE GetDictLoop_overwriting(_, _, _)
\* the loop of _getdict without 'assert key not in d'
GetDictLoop_overwriting(lines, apply, d) ==
  IF lines = <<>> THEN Ok(d)
  ELSE
    LET line == Head(lines)
        index == Find(line, <<":">>)
        key == SliceTo(line, index)
        value == SliceFrom(line, index + 2)
    IN IF line = <<>> THEN GetDictLoop_overwriting(Tail(lines), apply, d)
       ELSE IF index = -1 THEN Raise("AssertionError")
       ELSE IF apply = "int"
            THEN IF IntParses(value)
                 THEN GetDictLoop_overwriting(Tail(lines), apply, DictSet(d, key, Num(IntOf(value))))
                 ELSE Raise("ValueError")
            ELSE GetDictLoop_overwriting(Tail(lines), apply, DictSet(d, key, Text(value)))

\* _getdict where a later line of a label replaces the earlier value
_getdict_overwriting(lines, apply) == GetDictLoop_overwriting(lines, apply, <<>>)

\* _getdict passing over a line without a colon as it passes over an empty one
_getdict_skipping_bare(lines, apply) ==
  GetDictLoop(SelectSeq(lines, LAMBDA line : Find(line, <<":">>) # -1), apply, <<>>)

\* _getdict(lines, apply)
_getdict(lines, apply) == GetDictLoop(lines, apply, <<>>)

RECURSIVE Flatten(_)
Flatten(ss) == IF ss = <<>> THEN <<>> ELSE Head(ss) \o Flatten(Tail(ss))

RECURSIVE FirstOccurrences(_, _)
\* the keys of a sequence of items, each once, in order of first appearance
FirstOccurrences(items, seen) ==
  IF items = <<>> THEN seen
  ELSE IF \E i \in 1..Len(seen) : seen[i] = Head(items).key
       THEN FirstOccurrences(Tail(items), seen)
       ELSE FirstOccurrences(Tail(items), Append(seen, Head(items).key))

\* the second half of _getdicts storing ds2[key] = {groupno: value} in place of
\* ds2[key][groupno] = value, so that each key keeps its last group only
SwapMappings_overwriting(ds) ==
  IF \E g \in 1..Len(ds) : ~ds[g].ok
  THEN Raise(ds[CHOOSE g \in 1..Len(ds) : ~ds[g].ok /\ \A h \in 1..(g - 1) : ds[h].ok].exc)
  ELSE
    LET items == Flatten([g \in 1..Len(ds) |->
                   [i \in 1..Len(ds[g].val) |->
                      [groupno |-> g - 1, key |-> ds[g].val[i][1], value |-> ds[g].val[i][2]]]])
        keys == FirstOccurrences(items, <<>>)
        Of(key) == SelectSeq(items, LAMBDA it : it.key = key)
    IN Ok([k \in 1..Len(keys) |->
             <<keys[k], <<<<Num(Of(keys[k])[Len(Of(keys[k]))].groupno),
                           Of(keys[k])[Len(Of(keys[k]))].value>>>>>>])

\* the second half of _getdicts: ds[groupno][key] swapped to ds2[key][groupno]; a group
\* whose _getdict raised ends the call with that exception
SwapMappings(ds) ==
  IF \E g \in 1..Len(ds) : ~ds[g].ok
  THEN Raise(ds[CHOOSE g \in 1..Len(ds) : ~ds[g].ok /\ \A h \in 1..(g - 1) : ds[h].ok].exc)
  ELSE
    LET items == Flatten([g \in 1..Len(ds) |->
                   [i \in 1..Len(ds[g].val) |->
                      [groupno |-> g - 1, key |-> ds[g].val[i][1], value |-> ds[g].val[i][2]]]])
        keys == FirstOccurrences(items, <<>>)
        Of(key) == SelectSeq(items, LAMBDA it : it.key = key)
    IN Ok([k \in 1..Len(keys) |->
             <<keys[k], [i \in 1..Len(Of(keys[k])) |->
                           <<Num(Of(keys[k])[i].groupno), Of(keys[k])[i].value>>]>>])

\* _getdicts numbering only the lists that have lines (a list without lines is
\* passed over before groupno is counted up)
_getdicts_skipping_empty(linegroups, apply) ==
  SwapMappings([g \in 1..Len(SelectSeq(linegroups, LAMBDA lines : lines # <<>>)) |->
                  _getdict(SelectSeq(linegroups, LAMBDA lines : lines # <<>>)[g], apply)])

\* _getdicts(linegroups, apply)
_getdicts(linegroups, apply) ==
  SwapMappings([g \in 1..Len(linegroups) |-> _getdict(linegroups[g], apply)])

\* list.insert(i, x) written as list.append(x)
ListInsert_append(l, i, x) == Append(l, x)

\* list.insert(i, x)
ListInsert(l, i, x) ==
  IF i >= Len(l) THEN Append(l, x)
  ELSE SubSeq(l, 1, i) \o <<x>> \o SubSeq(l, i + 1, Len(l))

RECURSIVE InsertDummies(_, _, _)
\* the loop of _normalize over ALL_FIELD_NAMES[i+1..], i being the loop counter
InsertDummies(fields, field_names, i) ==
  IF i >= Len(ALL_FIELD_NAMES) THEN fields
  ELSE IF ALL_FIELD_NAMES[i + 1] \notin field_names
       THEN InsertDummies(ListInsert(fields, i, Field(ALL_FIELD_NAMES[i + 1], None)),
                          field_names, i + 1)
       ELSE InsertDummies(fields, field_names, i + 1)

\* _normalize(fields) dropping the fields whose name the schema does not know,
\* in place of the assertion on should_be_empty
_normalize_dropping(fields) ==
  LET known == SelectSeq(SortedByName(fields), LAMBDA f : f.name \in Range(ALL_FIELD_NAMES))
      filled == InsertDummies(known, {known[i].name : i \in 1..Len(known)}, 0)
  IN IF fields = <<>> THEN Raise("StopIteration")
     ELSE IF Len(filled) # Len(ALL_FIELD_NAMES) THEN Raise("AssertionError")
     ELSE Ok(filled)

\* _normalize(fields) collecting the fields into a dict by name, so that a later
\* field of a name replaces the earlier one and the length assertion passes
_normalize_keeping_last(fields) ==
  LET sorted == SortedByName(fields)
      field_names == {sorted[i].name : i \in 1..Len(sorted)}
      should_be_empty == field_names \ Range(ALL_FIELD_NAMES)
      byname == [n \in 1..Len(ALL_FIELD_NAMES) |->
                   IF ALL_FIELD_NAMES[n] \in field_names
                   THEN sorted[CHOOSE i \in 1..Len(sorted) :
                                 /\ sorted[i].name = ALL_FIELD_NAMES[n]
                                 /\ \A j \in (i + 1)..Len(sorted) : sorted[j].name # sorted[i].name]
                   ELSE Field(ALL_FIELD_NAMES[n], None)]
  IN IF fields = <<>> THEN Raise("StopIteration")
     ELSE IF should_be_empty # {} THEN Raise("AssertionError")
     ELSE Ok(byname)

\* _normalize(fields)
_normalize(fields) ==
  LET sorted == SortedByName(fields)
      field_names == {sorted[i].name : i \in 1..Len(sorted)}
      should_be_empty == field_names \ Range(ALL_FIELD_NAMES)
      filled == InsertDummies(sorted, field_names, 0)
  IN IF fields = <<>> THEN Raise("StopIteration")
     ELSE IF should_be_empty # {} THEN Raise("AssertionError")
     ELSE IF Len(filled) # Len(ALL_FIELD_NAMES) THEN Raise("AssertionError")
     ELSE Ok(filled)

\* str(v) of an int or of a str
PyStr(v) ==
  IF v.t = "num" THEN (IF v.n < 0 THEN <<"-">> \o StrOfNat(0 - v.n) ELSE StrOfNat(v.n)) ELSE v.s

ListSep == <<"|", "|">>
DictInSep == <<":", ":">>

\* _stringify_list(lst, sep='||')
_stringify_list(lst) ==
  IF \E i \in 1..Len(lst) : Contains(lst[i], ListSep) THEN Raise("AssertionError")
  ELSE Ok(Join(ListSep, lst))

\* _stringify_dict that looks for the separators in the values only
_stringify_dict_values_only(d) ==
  LET keys == [i \in 1..Len(d) |-> PyStr(d[i][1])]
      values == [i \in 1..Len(d) |-> PyStr(d[i][2])]
      Violates(s) == Contains(s, DictInSep) \/ Contains(s, ListSep)
  IN IF \E i \in 1..Len(d) : Violates(values[i])
     THEN Raise("AssertionError")
     ELSE Ok(Join(ListSep, [i \in 1..Len(d) |-> Join(DictInSep, <<keys[i], values[i]>>)]))

\* _stringify_dict(d, insep='::', outsep='||')
_stringify_dict(d) ==
  LET keys == [i \in 1..Len(d) |-> PyStr(d[i][1])]
      values == [i \in 1..Len(d) |-> PyStr(d[i][2])]
      Violates(s) == Contains(s, DictInSep) \/ Contains(s, ListSep)
  IN IF \E i \in 1..Len(d) : Violates(keys[i]) \/ Violates(values[i])
     THEN Raise("AssertionError")
     ELSE Ok(Join(ListSep, [i \in 1..Len(d) |-> Join(DictInSep, <<keys[i], values[i]>>)]))


\* ------------------------------------------------- the parsed document
\* A document (the BeautifulSoup tree) is [main, divs]: main says whether the
\* element #block-system-main exists, divs maps each section title to the parent
\* element of the <h2> with that text, or to NoDiv when there is no such <h2>.
NoDiv == [present |-> FALSE]

SectionTitles ==
  {"Location", "Participants", "Incident Characteristics", "Notes",
   "Guns Involved", "Sources", "District"}

\* _find_div_with_title(title, soup), for a soup that has the main block
_find_div_with_title(title, soup) == soup.divs[title]

IsWordChar(c) ==
  \/ IsDigit(c)
  \/ c = "_"
  \/ (Ord(c) >= Ord("A") /\ Ord(c) <= Ord("Z"))
  \/ (Ord(c) >= Ord("a") /\ Ord(c) <= Ord("z"))

\* \b between the characters at 1-based positions p and p+1 of s
WordBoundary(s, p) ==
  LET left == p >= 1 /\ p <= Len(s) /\ IsWordChar(s[p])
      right == p + 1 >= 1 /\ p + 1 <= Len(s) /\ IsWordChar(s[p + 1])
  IN left # right

EndsWith(s, suffix) ==
  Len(suffix) <= Len(s) /\ SubSeq(s, Len(s) - Len(suffix) + 1, Len(s)) = suffix

\* re.search(r'^[0-9]+[0-9a-z-]*\b', line, re.I)
MatchesHouseNumber(line) ==
  \E k \in 1..Len(line) : \E p \in k..Len(line) :
    /\ \A i \in 1..k : IsDigit(line[i])
    /\ \A i \in (k + 1)..p :
         IsDigit(line[i]) \/ line[i] = "-" \/ (IsWordChar(line[i]) /\ line[i] # "_")
    /\ WordBoundary(line, p)

StreetSuffixes ==
  {<<"s", "t">>,
   <<"s", "t", "r", "e", "e", "t">>,
   <<"r", "d">>,
   <<"r", "o", "a", "d">>,
   <<"d", "r">>,
   <<"d", "r", "i", "v", "e">>,
   <<"b", "l", "v", "d">>,
   <<"b", "o", "u", "l", "e", "v", "a", "r", "d">>,
   <<"a", "v", "e">>,
   <<"a", "v", "e", "n", "u", "e">>,
   <<"h", "w", "y">>,
   <<"h", "i", "g", "h", "w", "a", "y">>}

\* re.search(r'\b(st|street|rd|road|dr|drive|blvd|boulevard|ave|avenue|hwy|highway)\.?$', line, re.I)
MatchesStreetSuffix(line) ==
  \E w \in StreetSuffixes : \E tail \in {w, w \o <<".">>} :
    /\ EndsWith(Lower(line), tail)
    /\ WordBoundary(line, Len(line) - Len(tail))

\* describes_city_and_state(line)
describes_city_and_state(line, ctx) == Contains(line, <<",">>) /\ EndsWith(line, ctx.state)

\* describes_address(line)
describes_address(line, ctx) ==
  line = ctx.address \/ MatchesHouseNumber(line) \/ MatchesStreetSuffix(line)

\* A <span> of the Location section is
\*   [kind |-> "geo", lat, lon]  a text matching ^Geolocation:\s+(.*),\s+(.*)$ whose
\*                               groups float() turns into lat and lon,
\*   [kind |-> "geo_bad"]        such a text with a group float() rejects,
\*   [kind |-> "text", text]     any other text.
RECURSIVE LocationLoop(_, _, _)
LocationLoop(spans, ctx, out) ==
  IF spans = <<>> THEN Ok(out)
  ELSE
    LET span == Head(spans) IN
    IF span.kind = "geo"
    THEN LocationLoop(Tail(spans), ctx,
           out \o <<Field(FieldNameList[1], Num(span.lat)), Field(FieldNameList[2], Num(span.lon))>>)
    ELSE IF span.kind = "geo_bad" THEN Raise("ValueError")
    ELSE IF span.text = <<>> THEN LocationLoop(Tail(spans), ctx, out)
    ELSE IF describes_city_and_state(span.text, ctx) \/ describes_address(span.text, ctx)
         THEN LocationLoop(Tail(spans), ctx, out)
    ELSE LocationLoop(Tail(spans), ctx, Append(out, Field(FieldNameList[3], Text(span.text))))

\* Stage2Extractor._extract_location_fields(soup, ctx)
_extract_location_fields(soup, ctx) ==
  LET div == _find_div_with_title("Location", soup)
  IN IF ~div.present THEN Ok(<<>>) ELSE LocationLoop(div.spans, ctx, <<>>)

\* the loop shared by the Participants and Guns Involved sections, ds2 being what
\* _getdicts returned or raised:
\*   for field_name, field_values in ds2.items():
\*       yield Field(_out_name(field_name, prefix), _stringify_dict(field_values))
FieldsOfMappings(ds2, prefix) ==
  IF ~ds2.ok THEN ds2
  ELSE IF \E k \in 1..Len(ds2.val) : ~_stringify_dict(ds2.val[k][2]).ok
       THEN Raise("AssertionError")
  ELSE Ok([k \in 1..Len(ds2.val) |->
             Field(_out_name(ds2.val[k][1], prefix), Text(_stringify_dict(ds2.val[k][2]).val))])

TransposedFields(linegroups, prefix) == FieldsOfMappings(_getdicts(linegroups, "none"), prefix)

ParticipantPrefix == <<"p", "a", "r", "t", "i", "c", "i", "p", "a", "n", "t", "_">>
GunPrefix == <<"g", "u", "n", "_">>

\* Stage2Extractor._extract_participant_fields(soup)
_extract_participant_fields(soup) ==
  LET div == _find_div_with_title("Participants", soup)
  IN IF ~div.present THEN Ok(<<>>) ELSE TransposedFields(div.uls, ParticipantPrefix)

\* a value that _stringify_list returned, as a field value
AsText(str) == IF str.ok THEN Ok(Text(str.val)) ELSE str

\* Stage2Extractor._extract_incident_characteristics(soup)
_extract_incident_characteristics(soup) ==
  IF ~_find_div_with_title("Incident Characteristics", soup).present THEN Ok(None)
  ELSE AsText(_stringify_list(_find_div_with_title("Incident Characteristics", soup).lis))

\* Stage2Extractor._extract_notes(soup); div.p = None when the div has no <p>
_extract_notes(soup) ==
  LET div == _find_div_with_title("Notes", soup)
  IN IF ~div.present THEN Ok(None)
     ELSE IF div.p = None THEN Raise("AttributeError")
     ELSE Ok(div.p)

RECURSIVE LeadingDigits(_)
LeadingDigits(s) ==
  IF s # <<>> /\ IsDigit(Head(s)) THEN <<Head(s)>> \o LeadingDigits(Tail(s)) ELSE <<>>

RECURSIVE SkipBlanks(_)
SkipBlanks(s) == IF s # <<>> /\ Head(s) = " " THEN SkipBlanks(Tail(s)) ELSE s

StartsBlank(s) == s # <<>> /\ Head(s) = " "

\* r matches `involved.$`
IntroEnd(r) ==
  Len(r) = 9 /\ SubSeq(r, 1, 8) = <<"i", "n", "v", "o", "l", "v", "e", "d">>

\* r matches `s?\s+involved.$`
IntroAfterGun(r) ==
  \/ StartsBlank(r) /\ IntroEnd(SkipBlanks(r))
  \/ r # <<>> /\ Head(r) = "s" /\ StartsBlank(Tail(r)) /\ IntroEnd(SkipBlanks(Tail(r)))

\* r matches `guns?\s+involved.$`
IntroFromGun(r) == Len(r) >= 3 /\ SubSeq(r, 1, 3) = <<"g", "u", "n">> /\ IntroAfterGun(SliceFrom(r, 3))

\* re.search(r'^([0-9]+)\s+guns?\s+involved.$', p_text): group 1, or <<>> when
\* there is no match
GunsIntroGroup(p_text) ==
  IF /\ LeadingDigits(p_text) # <<>>
     /\ StartsBlank(SliceFrom(p_text, Len(LeadingDigits(p_text))))
     /\ IntroFromGun(SkipBlanks(SliceFrom(p_text, Len(LeadingDigits(p_text)))))
  THEN LeadingDigits(p_text) ELSE <<>>

\* the body of _extract_guns_involved_fields for a div that has a <p>: group is
\* what the pattern captured, rest what the list attributes yield or raise
GunsFields(group, rest) ==
  IF group = <<>> THEN Raise("AssertionError")
  ELSE IF ~rest.ok THEN rest
  ELSE Ok(<<Field(FieldNameList[13], Num(IntOf(group)))>> \o rest.val)

\* Stage2Extractor._extract_guns_involved_fields(soup); div.p = None when the div
\* has no <p>
_extract_guns_involved_fields(soup) ==
  IF ~_find_div_with_title("Guns Involved", soup).present THEN Ok(<<>>)
  ELSE IF _find_div_with_title("Guns Involved", soup).p = None THEN Raise("AttributeError")
  ELSE GunsFields(GunsIntroGroup(_find_div_with_title("Guns Involved", soup).p.s),
                  TransposedFields(_find_div_with_title("Guns Involved", soup).uls, GunPrefix))

\* [a['href'] for a in anchors], an anchor being [text, href]
Hrefs(anchors) == [i \in 1..Len(anchors) |-> anchors[i].href]

\* Stage2Extractor._extract_sources(soup)
_extract_sources(soup) ==
  IF ~_find_div_with_title("Sources", soup).present THEN Ok(None)
  ELSE AsText(_stringify_list(Hrefs(SelectSeq(_find_div_with_title("Sources", soup).anchors,
                                              LAMBDA a : a.text = a.href))))

\* the loop of _extract_district_fields over what _getdict(lines, apply=int)
\* returned or raised
DistrictFields(d) ==
  IF ~d.ok THEN d
  ELSE Ok([i \in 1..Len(d.val) |-> Field(_out_name(d.val[i][1], <<>>), d.val[i][2])])

\* Stage2Extractor._extract_district_fields(soup); div.lines are the stripped
\* texts before each <br>
_extract_district_fields(soup) ==
  IF ~_find_div_with_title("District", soup).present THEN Ok(<<>>)
  ELSE DistrictFields(_getdict(_find_div_with_title("District", soup).lines, "int"))

\* the list handed to _normalize once every sub-extraction has returned; steps holds
\* what each returned, in the order in which extract_fields runs them
ProducedFields(steps) ==
  steps[4].val
    \o steps[5].val
    \o <<Field(FieldNameList[11], steps[1].val), Field(FieldNameList[12], steps[2].val)>>
    \o steps[6].val
    \o <<Field(FieldNameList[16], steps[3].val)>>
    \o steps[7].val

\* the first exception among the steps, or the normalized list of their fields
NormalizedSteps(steps) ==
  IF \E i \in 1..Len(steps) : ~steps[i].ok
  THEN Raise(steps[CHOOSE i \in 1..Len(steps) :
                      ~steps[i].ok /\ \A j \in 1..(i - 1) : steps[j].ok].exc)
  ELSE _normalize(ProducedFields(steps))

\* what the seven sub-extractions of extract_fields return or raise, in the order
\* in which they run: the three plain methods at lines 118-121, then the four
\* generators when the list at lines 124-130 is built
SubExtractions(soup, ctx) ==
  <<_extract_incident_characteristics(soup),
    _extract_notes(soup),
    _extract_sources(soup),
    _extract_location_fields(soup, ctx),
    _extract_participant_fields(soup),
    _extract_guns_involved_fields(soup),
    _extract_district_fields(soup)>>

\* Stage2Extractor.extract_fields(text, ctx), soup being the parsed text
extract_fields(soup, ctx) ==
  IF ~soup.main THEN Raise("AttributeError")
  ELSE NormalizedSteps(SubExtractions(soup, ctx))

\* ---------------------------------------------------------- sample inputs
\* Texts the bounded documents are built from.
TypeVictim == <<"T", "y", "p", "e", ":", " ", "V", "i", "c", "t", "i", "m">>   \* 'Type: Victim'
TypeSubject == <<"T", "y", "p", "e", ":", " ", "S", "u", "b", "j", "e", "c", "t">>   \* 'Type: Subject'
NameAl == <<"N", "a", "m", "e", ":", " ", "A", "l">>   \* 'Name: Al'
Age30 == <<"A", "g", "e", ":", " ", "3", "0">>   \* 'Age: 30'
AgeGroupAdult == <<"A", "g", "e", " ", "G", "r", "o", "u", "p", ":", " ", "A", "d", "u", "l", "t">>   \* 'Age Group: Adult'
AgeGroupLower == <<"a", "g", "e", " ", "g", "r", "o", "u", "p", ":", " ", "T", "e", "e", "n">>   \* 'age group: Teen'
Height6 == <<"H", "e", "i", "g", "h", "t", ":", " ", "6">>   \* 'Height: 6'
NoColonLine == <<"U", "n", "h", "a", "r", "m", "e", "d">>   \* 'Unharmed'
StatusSep == <<"S", "t", "a", "t", "u", "s", ":", " ", "S", "h", "o", "t", "|", "|", "K", "i", "l", "l", "e", "d">>   \* 'Status: Shot||Killed'
TypeHandgun == <<"T", "y", "p", "e", ":", " ", "H", "a", "n", "d", "g", "u", "n">>   \* 'Type: Handgun'
StolenUnknown == <<"S", "t", "o", "l", "e", "n", ":", " ", "U", "n", "k", "n", "o", "w", "n">>   \* 'Stolen: Unknown'
ModelX == <<"M", "o", "d", "e", "l", ":", " ", "X">>   \* 'Model: X'
Intro2 == <<"2", " ", "g", "u", "n", "s", " ", "i", "n", "v", "o", "l", "v", "e", "d", ".">>   \* '2 guns involved.'
Intro1 == <<"1", " ", "g", "u", "n", " ", "i", "n", "v", "o", "l", "v", "e", "d", ".">>   \* '1 gun involved.'
IntroBad == <<"U", "n", "k", "n", "o", "w", "n", " ", "g", "u", "n", "s">>   \* 'Unknown guns'
CongDistrict7 == <<"C", "o", "n", "g", "r", "e", "s", "s", "i", "o", "n", "a", "l", " ", "D", "i", "s", "t", "r", "i", "c", "t", ":", " ", "7">>   \* 'Congressional District: 7'
SenateDistrict12 == <<"S", "t", "a", "t", "e", " ", "S", "e", "n", "a", "t", "e", " ", "D", "i", "s", "t", "r", "i", "c", "t", ":", " ", "1", "2">>   \* 'State Senate District: 12'
HouseDistrictX == <<"S", "t", "a", "t", "e", " ", "H", "o", "u", "s", "e", " ", "D", "i", "s", "t", "r", "i", "c", "t", ":", " ", "x">>   \* 'State House District: x'
CongDistrictNeg == <<"C", "o", "n", "g", "r", "e", "s", "s", "i", "o", "n", "a", "l", " ", "D", "i", "s", "t", "r", "i", "c", "t", ":", " ", "-", "7">>   \* 'Congressional District: -7'
LatitudeLine == <<"L", "a", "t", "i", "t", "u", "d", "e", ":", " ", "5">>   \* 'Latitude: 5'
NotesLine == <<"N", "o", "t", "e", "s", ":", " ", "3">>   \* 'Notes: 3'
WardLine == <<"W", "a", "r", "d", " ", "5">>   \* 'Ward 5'
MainSt == <<"M", "a", "i", "n", " ", "S", "t">>   \* 'Main St'
CityState == <<"A", "r", "l", "i", "n", "g", "t", "o", "n", ",", " ", "V", "A">>   \* 'Arlington, VA'
NearPark == <<"n", "e", "a", "r", " ", "t", "h", "e", " ", "p", "a", "r", "k">>   \* 'near the park'
CtxAddress == <<"E", "l", "m", " ", "P", "a", "r", "k">>   \* 'Elm Park'
CtxCity == <<"A", "r", "l", "i", "n", "g", "t", "o", "n">>   \* 'Arlington'
CtxState == <<"V", "A">>   \* 'VA'
ShotDead == <<"S", "h", "o", "t", " ", "-", " ", "D", "e", "a", "d">>   \* 'Shot - Dead'
Gang == <<"G", "a", "n", "g">>   \* 'Gang'
ItemSep == <<"a", "|", "|", "b">>   \* 'a||b'
NoteText == <<"T", "w", "o", " ", "s", "h", "o", "t", ".">>   \* 'Two shot.'
UrlA == <<"a", ".", "c", "o", "m", "/", "1">>   \* 'a.com/1'
UrlB == <<"b", ".", "o", "r", "g">>   \* 'b.org'
LinkText == <<"R", "e", "a", "d">>   \* 'Read'

SampleCtx == [address |-> CtxAddress, city_or_county |-> CtxCity, state |-> CtxState]

SeqsUpTo(S, n) == UNION {[1..k -> S] : k \in 0..n}

SampleSpans ==
  {[kind |-> "geo", lat |-> 38, lon |-> -77], [kind |-> "geo_bad"],
   [kind |-> "text", text |-> <<>>], [kind |-> "text", text |-> MainSt],
   [kind |-> "text", text |-> CityState], [kind |-> "text", text |-> CtxAddress],
   [kind |-> "text", text |-> NearPark]}

SampleParticipantGroups ==
  {<<TypeVictim, Age30>>, <<TypeSubject, <<>>, NameAl>>, <<AgeGroupAdult, AgeGroupLower>>,
   <<Height6>>, <<NoColonLine>>, <<TypeVictim, TypeSubject>>, <<StatusSep>>, <<>>}

SampleGunGroups ==
  {<<TypeHandgun>>, <<TypeHandgun, StolenUnknown>>, <<ModelX>>, <<TypeHandgun, NoColonLine>>, <<>>}

SampleIntros == {Text(Intro2), Text(Intro1), Text(IntroBad), None}

SampleDistrictLines ==
  {CongDistrict7, CongDistrictNeg, SenateDistrict12, HouseDistrictX, LatitudeLine, NotesLine,
   WardLine, <<>>}

LocationDivs == {[present |-> TRUE, spans |-> ss] : ss \in SeqsUpTo(SampleSpans, MaxSpans)}

ParticipantDivs ==
  {[present |-> TRUE, uls |-> g] : g \in SeqsUpTo(SampleParticipantGroups, MaxGroups)}

GunDivs ==
  {[present |-> TRUE, p |-> i, uls |-> g] :
     i \in SampleIntros, g \in SeqsUpTo(SampleGunGroups, MaxGroups)}

DistrictDivs ==
  {[present |-> TRUE, lines |-> l] : l \in SeqsUpTo(SampleDistrictLines, MaxDistrictLines)}

CharacteristicsDivs ==
  {[present |-> TRUE, lis |-> l] : l \in {<<>>, <<ShotDead, Gang>>, <<Gang, ItemSep>>}}

NotesDivs == {[present |-> TRUE, p |-> q] : q \in {Text(NoteText), None}}

SourcesDivs ==
  {[present |-> TRUE, anchors |-> a] :
     a \in {<<>>,
            <<[text |-> UrlA, href |-> UrlA], [text |-> LinkText, href |-> UrlB]>>,
            <<[text |-> UrlA, href |-> UrlA], [text |-> UrlB, href |-> UrlB]>>}}

\* one well-formed div per section, and the absent section
PlainLocation == {NoDiv, [present |-> TRUE, spans |-> <<[kind |-> "geo", lat |-> 38, lon |-> -77]>>]}
PlainParticipants == {NoDiv, [present |-> TRUE, uls |-> <<<<TypeVictim, Age30>>>>]}
PlainGuns == {NoDiv, [present |-> TRUE, p |-> Text(Intro1), uls |-> <<<<TypeHandgun>>>>]}
PlainDistrict == {NoDiv, [present |-> TRUE, lines |-> <<CongDistrict7>>]}

\* Incident Characteristics, Notes and Sources together: all absent, or all plain
PlainScalars ==
  {[c |-> NoDiv, n |-> NoDiv, s |-> NoDiv],
   [c |-> [present |-> TRUE, lis |-> <<ShotDead, Gang>>],
    n |-> [present |-> TRUE, p |-> Text(NoteText)],
    s |-> [present |-> TRUE, anchors |-> <<[text |-> UrlA, href |-> UrlA]>>]]}

MkDoc(l, p, c, n, g, s, d) ==
  [main |-> TRUE,
   divs |-> [t \in SectionTitles |->
               CASE t = "Location" -> l
                 [] t = "Participants" -> p
                 [] t = "Incident Characteristics" -> c
                 [] t = "Notes" -> n
                 [] t = "Guns Involved" -> g
                 [] t = "Sources" -> s
                 [] t = "District" -> d]]

NoMainDoc == [main |-> FALSE, divs |-> [t \in SectionTitles |-> NoDiv]]

\* The bounded documents: one section ranges over all its bounded contents while
\* the others are absent or plain.
Docs ==
  {NoMainDoc}
  \cup {MkDoc(l, p, x.c, x.n, g, x.s, d) :
          l \in LocationDivs, p \in PlainParticipants, x \in PlainScalars,
          g \in PlainGuns, d \in PlainDistrict}
  \cup {MkDoc(l, p, x.c, x.n, g, x.s, d) :
          l \in PlainLocation, p \in ParticipantDivs, x \in PlainScalars,
          g \in PlainGuns, d \in PlainDistrict}
  \cup {MkDoc(l, p, x.c, x.n, g, x.s, d) :
          l \in PlainLocation, p \in PlainParticipants, x \in PlainScalars,
          g \in GunDivs, d \in PlainDistrict}
  \cup {MkDoc(l, p, x.c, x.n, g, x.s, d) :
          l \in PlainLocation, p \in PlainParticipants, x \in PlainScalars,
          g \in PlainGuns, d \in DistrictDivs}
  \cup {MkDoc(l, p, c, n, g, s, d) :
          l \in PlainLocation, p \in PlainParticipants,
          c \in CharacteristicsDivs \cup {NoDiv}, n \in NotesDivs \cup {NoDiv},
          g \in PlainGuns, s \in SourcesDivs \cup {NoDiv}, d \in PlainDistrict}

\* --------------------------------------------------------- stage2_session
\* Context(address, city_or_county, state) built from a row
Context(row) == [address |-> row.address, city_or_county |-> row.city_or_county, state |-> row.state]

average_wait == 10   \* default of _get's parameter
rng_base == 2        \* default of _get's parameter

RECURSIVE Pow(_, _)
Pow(b, e) == IF e = 0 THEN 1 ELSE b * Pow(b, e - 1)

\* _compute_wait with int(...) applied to the power itself, without np.ceil
_compute_wait_truncating(fuzz) ==
  LET whole == fuzz >= -1
      above == fuzz \in (-11)..4
      floor == IF fuzz >= 0 THEN average_wait * Pow(rng_base, fuzz)
               ELSE average_wait \div Pow(rng_base, 0 - fuzz)
  IN IF whole /\ ~above THEN floor - 1 ELSE floor

\* _compute_wait(average_wait, rng_base) as _get calls it (line 73), with the
\* defaults 10 and 2 of its parameters, for an integral jitter draw fuzz:
\* int(np.ceil(rng_base ** (log_average_wait + fuzz))).
\* The real power is 10 * 2^fuzz, a whole number from fuzz = -1 on.  The double
\* math.log(10, 2) = 3.3219280948873626 lies just above the real logarithm; for
\* the draws -11..4 the double sum and the double power stay just above the real
\* power (5.000000000000001, 10.000000000000002, ..., 160.00000000000003), so
\* the ceiling of a whole power is one more than it; from the draw 5 on the sum
\* is rounded to a double below the real one (319.9999999999999, ...) and the
\* ceiling is the whole power itself.  The ceiling of a power that is not whole
\* is its floor plus one either way.
_compute_wait(fuzz) ==
  LET whole == fuzz >= -1
      above == fuzz \in (-11)..4
      floor == IF fuzz >= 0 THEN average_wait * Pow(rng_base, fuzz)
               ELSE average_wait \div Pow(rng_base, 0 - fuzz)
  IN IF whole /\ ~above THEN floor ELSE floor + 1

\* an exception object: its class, its errno (OSError) and its code (HTTP error)
Exc(cls, errno, code) == [cls |-> cls, errno |-> errno, code |-> code]

\* _status_from_exception(exc), sys being platform.system()
_status_from_exception(exc, sys) ==
  IF exc.cls = "CancelledError" THEN "<canceled>"
  ELSE IF exc.cls = "ClientOSError" /\ sys = "Windows" /\ exc.errno = 10054 THEN "<conn closed>"
  ELSE IF exc.cls = "TimeoutError" THEN "<timed out>"
  ELSE ""

\* whether `except Exception` catches exc: it catches what derives from Exception.
\* BaseException itself, BaseExceptionGroup, KeyboardInterrupt, SystemExit and
\* GeneratorExit derive from BaseException only; asyncio.CancelledError derives
\* from Exception up to Python 3.7 and from BaseException since Python 3.8; legacy
\* says which interpreter runs the program.
CaughtByExceptException(exc, legacy) ==
  /\ exc.cls \notin {"BaseException", "BaseExceptionGroup", "KeyboardInterrupt", "SystemExit",
                     "GeneratorExit"}
  /\ exc.cls # "CancelledError" \/ legacy

\* cfscrape.create_scraper() is a requests.Session and the resp its get returns a
\* requests.Response: status_code, headers, text, raise_for_status and close, and no
\* release.
\* resp.raise_for_status(): requests raises its own HTTPError, which is no
\* aiohttp ClientResponseError; code stands for exc.response.status_code
raise_for_status(resp) ==
  IF resp.status >= 400 THEN Raise(Exc("HTTPError", 0, resp.status)) ELSE Ok(None)

\* `await resp.release()`: the attribute lookup on a requests.Response raises
release(resp) == Raise(Exc("AttributeError", 0, 0))

HtmlMimeTypes ==
  {<<"t", "e", "x", "t", "/", "h", "t", "m">>,
   <<"t", "e", "x", "t", "/", "h", "t", "m", "l">>}

\* ctype = resp.headers.get(CONTENT_TYPE, '').lower(); mimetype = ctype[:ctype.find(';')]
\* header = None when the response declares no content type
MimeType(header) ==
  LET ctype == IF header = None THEN <<>> ELSE Lower(header.s)
  IN SliceTo(ctype, Find(ctype, <<";">>))

\* how _get_fields_from_incident_url ends once extract_fields has returned or raised
Extracted(extracted) ==
  IF extracted.ok THEN [kind |-> "return", record |-> extracted.val, calls |-> 1]
  ELSE [kind |-> "raise", exc |-> Exc(extracted.exc, 0, 0), calls |-> 1]

\* Stage2Session._get_fields_from_incident_url(row) from the point where _get has
\* returned resp: [kind |-> "return", record] or [kind |-> "raise", exc];
\* calls tells how often the extractor was invoked
FieldsFromResponse(resp, row) ==
  IF ~raise_for_status(resp).ok
  THEN [kind |-> "raise", exc |-> raise_for_status(resp).exc, calls |-> 0]
  ELSE IF MimeType(resp.ctype) \notin HtmlMimeTypes
       THEN [kind |-> "raise", exc |-> Exc("NotImplementedError", 0, 0), calls |-> 0]
  ELSE Extracted(extract_fields(resp.text, Context(row)))

\* the handler of Stage2Session.get_fields_from_incident_url: whether the
\* extraction-failed diagnostic and the traceback are printed for exception exc
LogsExtractionFailed(exc, legacy) ==
  /\ CaughtByExceptException(exc, legacy)
  /\ ~(exc.cls = "ClientResponseError" /\ exc.code = 404)

NoUrl == [t |-> "null"]

\* the URL an exception object carries when get_fields_from_incident_url re-raises
\* it unchanged (line 106), url being the URL scraper.get was called with: the
\* requests exceptions hold the request or the response; the AttributeError of
\* line 71, the NotImplementedError of line 86 (its message names the mime type)
\* and the extractor's errors hold nothing of the row
CarriedUrl(exc, url) ==
  IF exc.cls \in {"HTTPError", "requests.ReadTimeout", "requests.ConnectionError"}
  THEN [t |-> "url", url |-> url] ELSE NoUrl

\* ------------------------------------------------------------ the state
\* the rows handed to the session, one get_fields_from_incident_url call each
Rows == {1, 2}

RowOf(t) ==
  [incident_url |-> t, address |-> CtxAddress, city_or_county |-> CtxCity, state |-> CtxState]

\* documents a response body can parse to: schema-conforming, and schema drift
GoodDoc ==
  MkDoc([present |-> TRUE, spans |-> <<[kind |-> "geo", lat |-> 38, lon |-> -77]>>],
        NoDiv, NoDiv, [present |-> TRUE, p |-> Text(NoteText)],
        [present |-> TRUE, p |-> Text(Intro2), uls |-> <<<<TypeHandgun>>, <<TypeHandgun>>>>],
        NoDiv, NoDiv)

DriftDoc ==
  MkDoc(NoDiv, [present |-> TRUE, uls |-> <<<<Height6>>>>], NoDiv, NoDiv, NoDiv, NoDiv, NoDiv)

ContentTypes ==
  {None,
   Text(<<"t", "e", "x", "t", "/", "h", "t", "m", "l">>),
   Text(<<"T", "e", "x", "t", "/", "H", "T", "M", "L", ";", " ", "c", "h", "a", "r", "s", "e", "t", "=", "u", "t", "f", "-", "8">>),
   Text(<<"t", "e", "x", "t", "/", "h", "t", "m", "l", " ", ";", " ", "c", "h", "a", "r", "s", "e", "t", "=", "u", "t", "f", "-", "8">>),
   Text(<<"t", "e", "x", "t", "/", "h", "t", "m", "x">>),
   Text(<<"a", "p", "p", "l", "i", "c", "a", "t", "i", "o", "n", "/", "j", "s", "o", "n">>)}

Statuses == {200, 403, 404, 500, 503}

\* what scraper.get(url) can return: below 400 the headers and the body matter
Responses ==
  {[status |-> 200, ctype |-> c, text |-> GoodDoc] : c \in ContentTypes}
  \cup {[status |-> 200, ctype |-> Text(<<"t", "e", "x", "t", "/", "h", "t", "m", "l">>), text |-> DriftDoc]}
  \cup {[status |-> st, ctype |-> None, text |-> NoMainDoc] : st \in Statuses \ {200}}

\* what scraper.get(url) can raise: the classes _status_from_exception names, and
\* the requests library's own timeout and connection errors
TransportErrors ==
  {Exc("CancelledError", 0, 0), Exc("TimeoutError", 0, 0), Exc("ClientOSError", 10054, 0),
   Exc("ClientOSError", 104, 0), Exc("requests.ReadTimeout", 0, 0),
   Exc("requests.ConnectionError", 0, 0)}

NoOutcome == [kind |-> "none"]

VARIABLES
  platform,     \* platform.system()
  legacy,       \* TRUE on an interpreter where CancelledError is an Exception
  pool,         \* the ClientSession of the scope: "unopened", "open", "closed"
  left,         \* how the scope body was left: "no", "return", "exception", "cancellation"
  pc,           \* per call: "idle", "loop", "in_get", "sleep", "done"
  attempts,     \* per call: scraper.get calls issued
  sleeps,       \* per call: asyncio.sleep calls started
  n5xx,         \* per call: responses with status >= 500 received
  nRetryExc,    \* per call: exceptions of scraper.get that _get retried
  wait,         \* per call: the wait of the sleep in progress, 0 otherwise
  last,         \* per call: the outcome of the latest scraper.get, or how a sleep ended
  result,       \* per call: NoOutcome, or what the call returned or raised
  logged,       \* per call: the extraction-failed diagnostic was printed
  extractCalls, \* per call: invocations of extract_fields
  doc,          \* the document handed to extract_fields on its own
  outcome,      \* NotRun, or what that extract_fields returned or raised
  arg,          \* the function and arguments of a module-level function called on its own
  ret,          \* NotRun, or what that function returned or raised
  instances,    \* per Stage2Extractor instance: its attributes (its __dict__)
  calls         \* the extract_fields calls made on those instances, in order

envVars == <<platform, legacy>>
callVars == <<pc, attempts, sleeps, n5xx, nRetryExc, wait, last, result, logged, extractCalls>>
sessVars == <<envVars, pool, left, callVars>>
extVars == <<doc, outcome, arg, ret, instances, calls>>
vars == <<sessVars, extVars>>

NotRun == [ok |-> FALSE, exc |-> "<not run>"]

SessInit ==
  /\ platform \in {"Windows", "Linux"}
  /\ legacy \in BOOLEAN
  /\ pool = "unopened"
  /\ left = "no"
  /\ pc = [t \in Rows |-> "idle"]
  /\ attempts = [t \in Rows |-> 0]
  /\ sleeps = [t \in Rows |-> 0]
  /\ n5xx = [t \in Rows |-> 0]
  /\ nRetryExc = [t \in Rows |-> 0]
  /\ wait = [t \in Rows |-> 0]
  /\ last = [t \in Rows |-> NoOutcome]
  /\ result = [t \in Rows |-> NoOutcome]
  /\ logged = [t \in Rows |-> FALSE]
  /\ extractCalls = [t \in Rows |-> 0]

NoArg == [fn |-> "none"]

Instances == {"a", "b"}

\* the attributes of a Stage2Extractor(): the class defines no __init__
NoAttrs == <<>>

ObjInit == instances = [i \in Instances |-> NoAttrs] /\ calls = <<>>

Init ==
  /\ SessInit /\ doc = NoMainDoc /\ outcome = NotRun /\ arg = NoArg /\ ret = NotRun
  /\ ObjInit

\* scraper.get is a plain call, not awaited: while one call is inside it the
\* event loop runs nothing else
LoopFree == \A u \in Rows : pc[u] # "in_get"

\* Stage2Session.__aenter__
Enter ==
  /\ pool = "unopened"
  /\ pool' = "open"
  /\ UNCHANGED <<envVars, left, callVars, extVars>>

\* the scope body starts get_fields_from_incident_url(row)
Call(t) ==
  /\ pool = "open" /\ pc[t] = "idle" /\ LoopFree
  /\ pc' = [pc EXCEPT ![t] = "loop"]
  /\ UNCHANGED <<envVars, pool, left, attempts, sleeps, n5xx, nRetryExc, wait, last,
                 result, logged, extractCalls, extVars>>

\* _get, top of the loop: scraper = cfscrape.create_scraper(); scraper.get(url) starts
IssueGet(t) ==
  /\ pc[t] = "loop" /\ LoopFree
  /\ pc' = [pc EXCEPT ![t] = "in_get"]
  /\ attempts' = [attempts EXCEPT ![t] = @ + 1]
  /\ last' = [last EXCEPT ![t] = NoOutcome]
  /\ UNCHANGED <<envVars, pool, left, sleeps, n5xx, nRetryExc, wait, result, logged,
                 extractCalls, extVars>>

\* `if status < 400: return resp`
ReturnsResponse_below400(st) == st < 400

\* `if status < 500: return resp`
ReturnsResponse(st) == st < 500

\* the bottom of the loop going back to the top without `await asyncio.sleep(wait)`
Retry_nosleep(t) ==
  /\ \E fuzz \in (-MaxFuzz)..MaxFuzz :
       wait' = [wait EXCEPT ![t] = _compute_wait(fuzz)]
  /\ sleeps' = sleeps
  /\ pc' = [pc EXCEPT ![t] = "loop"]

\* _get, bottom of the loop: wait = _compute_wait(...); _log_retry; await asyncio.sleep(wait)
Retry(t) ==
  /\ \E fuzz \in (-MaxFuzz)..MaxFuzz :
       wait' = [wait EXCEPT ![t] = _compute_wait(fuzz)]
  /\ sleeps' = [sleeps EXCEPT ![t] = @ + 1]
  /\ pc' = [pc EXCEPT ![t] = "sleep"]

\* the end of a call where a failure also ends every sibling call with a cancellation
Finish_cancelling_siblings(t, out) ==
  /\ pc' = [u \in Rows |-> IF u = t \/ out.kind = "raise" THEN "done" ELSE pc[u]]
  /\ result' = [u \in Rows |->
                  IF u = t THEN out
                  ELSE IF out.kind = "raise" /\ pc[u] # "done"
                       THEN [kind |-> "raise", exc |-> Exc("CancelledError", 0, 0)]
                       ELSE result[u]]
  /\ logged' = [logged EXCEPT ![t] = out.kind = "raise" /\ LogsExtractionFailed(out.exc, legacy)]

\* the call ends: out is [kind |-> "return", record] or [kind |-> "raise", exc]; an
\* exception passes through the handler of get_fields_from_incident_url
Finish(t, out) ==
  /\ pc' = [pc EXCEPT ![t] = "done"]
  /\ result' = [result EXCEPT ![t] = out]
  /\ logged' = [logged EXCEPT ![t] = out.kind = "raise" /\ LogsExtractionFailed(out.exc, legacy)]

\* _get has returned resp to _get_fields_from_incident_url, which ends with out
Deliver(t, out) ==
  /\ Finish(t, [x \in DOMAIN out \ {"calls"} |-> out[x]])
  /\ extractCalls' = [extractCalls EXCEPT ![t] = @ + out.calls]

\* scraper.get(url) returns resp
GetReturns(t, resp) ==
  /\ pc[t] = "in_get"
  /\ last' = [last EXCEPT ![t] = [kind |-> "resp", resp |-> resp]]
  /\ IF ReturnsResponse(resp.status)
     THEN /\ Deliver(t, FieldsFromResponse(resp, RowOf(t)))
          /\ UNCHANGED <<sleeps, n5xx, wait>>
     ELSE \* line 71 raises, after the try statement: the error leaves _get
          /\ n5xx' = [n5xx EXCEPT ![t] = @ + 1]
          /\ Finish(t, [kind |-> "raise", exc |-> release(resp).exc])
          /\ UNCHANGED <<sleeps, wait, extractCalls>>
  /\ UNCHANGED <<envVars, pool, left, attempts, nRetryExc, extVars>>

\* scraper.get(url) raises exc
GetRaises(t, exc) ==
  /\ pc[t] = "in_get"
  /\ last' = [last EXCEPT ![t] = [kind |-> "exc", exc |-> exc]]
  /\ IF CaughtByExceptException(exc, legacy) /\ _status_from_exception(exc, platform) # ""
     THEN /\ attempts[t] < MaxAttempts
          /\ nRetryExc' = [nRetryExc EXCEPT ![t] = @ + 1]
          /\ Retry(t)
          /\ UNCHANGED <<result, logged>>
     ELSE /\ Finish(t, [kind |-> "raise", exc |-> exc])
          /\ UNCHANGED <<nRetryExc, wait, sleeps>>
  /\ UNCHANGED <<envVars, pool, left, attempts, n5xx, extractCalls, extVars>>

\* asyncio.sleep(wait) returns: back to the top of the loop
WakeUp(t) ==
  /\ pc[t] = "sleep" /\ LoopFree
  /\ pc' = [pc EXCEPT ![t] = "loop"]
  /\ wait' = [wait EXCEPT ![t] = 0]
  /\ UNCHANGED <<envVars, pool, left, attempts, sleeps, n5xx, nRetryExc, last, result,
                 logged, extractCalls, extVars>>

\* the call's task is cancelled while it awaits asyncio.sleep(wait): CancelledError is
\* raised at line 75, outside the try statement of _get
CancelSleep(t) ==
  /\ pc[t] = "sleep" /\ LoopFree
  /\ last' = [last EXCEPT ![t] = [kind |-> "sleep_cancelled"]]
  /\ wait' = [wait EXCEPT ![t] = 0]
  /\ Finish(t, [kind |-> "raise", exc |-> Exc("CancelledError", 0, 0)])
  /\ UNCHANGED <<envVars, pool, left, attempts, sleeps, n5xx, nRetryExc, extractCalls, extVars>>

\* __aexit__ that closes the ClientSession only when the body raised nothing
aexit_unless_raised(how) ==
  /\ pool' = IF how = "return" THEN "closed" ELSE pool
  /\ left' = how

\* Stage2Session.__aexit__(type, value, tb): `async with` calls it however the body
\* was left; it awaits self._sess.__aexit__, which closes the ClientSession
__aexit__(how) ==
  /\ pool' = "closed"
  /\ left' = how

\* the scope body returns once every call it made is over
Exit ==
  /\ pool = "open" /\ \A t \in Rows : pc[t] = "done"
  /\ __aexit__("return")
  /\ UNCHANGED <<envVars, callVars, extVars>>

\* the scope body lets the failure of one of its calls propagate
ExitByException ==
  /\ pool = "open" /\ LoopFree
  /\ \E t \in Rows : pc[t] = "done" /\ result[t].kind = "raise"
  /\ __aexit__("exception")
  /\ UNCHANGED <<envVars, callVars, extVars>>

\* the task running the scope body is cancelled
ExitByCancellation ==
  /\ pool = "open" /\ LoopFree
  /\ __aexit__("cancellation")
  /\ UNCHANGED <<envVars, callVars, extVars>>

Next ==
  \/ Enter
  \/ Exit
  \/ ExitByException
  \/ ExitByCancellation
  \/ \E t \in Rows : Call(t)
  \/ \E t \in Rows : IssueGet(t)
  \/ \E t \in Rows, resp \in Responses : GetReturns(t, resp)
  \/ \E t \in Rows, exc \in TransportErrors : GetRaises(t, exc)
  \/ \E t \in Rows : WakeUp(t)
  \/ \E t \in Rows : CancelSleep(t)

Spec == Init /\ [][Next]_vars

\* ------------------------------------------- the extractor on its own
ExtInit ==
  /\ SessInit /\ platform = "Linux" /\ legacy = FALSE
  /\ doc \in Docs /\ outcome = NotRun
  /\ arg = NoArg /\ ret = NotRun
  /\ ObjInit

\* one call of Stage2Extractor.extract_fields
ExtractFields ==
  /\ outcome = NotRun
  /\ outcome' = extract_fields(doc, SampleCtx)
  /\ UNCHANGED <<doc, arg, ret, instances, calls, sessVars>>

ExtNext == ExtractFields

ExtractSpec == ExtInit /\ [][ExtNext]_vars

\* ------------------------------------------------- _getdict on its own
MaxLines == 3   \* lines handed to _getdict

\* lines of an attribute list: 'T: V', 'T: W', 'D: 7', 'D: 8', 'D:12', 'K:v',
\* 'K: a:b', 'K:', 'N: -1_0', 'U' and the empty line
SampleLines ==
  {<<"T", ":", " ", "V">>, <<"T", ":", " ", "W">>, <<"D", ":", " ", "7">>,
   <<"D", ":", " ", "8">>, <<"D", ":", "1", "2">>, <<"K", ":", "v">>,
   <<"K", ":", " ", "a", ":", "b">>, <<"K", ":">>, <<"N", ":", " ", "-", "1", "_", "0">>,
   <<"U">>, <<>>}

\* apply=None as in the Participants and Guns Involved sections, apply=int as in
\* the District section
LineArgs ==
  {[fn |-> "_getdict", lines |-> l, apply |-> a] :
     l \in SeqsUpTo(SampleLines, MaxLines), a \in {"none", "int"}}

LinesInit ==
  /\ SessInit /\ platform = "Linux" /\ legacy = FALSE
  /\ doc = NoMainDoc /\ outcome = NotRun
  /\ arg \in LineArgs /\ ret = NotRun
  /\ ObjInit

\* one call of _getdict(lines, apply)
GetDict ==
  /\ arg.fn = "_getdict" /\ ret = NotRun
  /\ ret' = _getdict(arg.lines, arg.apply)
  /\ UNCHANGED <<arg, doc, outcome, instances, calls, sessVars>>

LinesNext == GetDict

LinesSpec == LinesInit /\ [][LinesNext]_vars

\* ------------------------------ extract_fields called again and again
MaxCalls == 3   \* calls of extract_fields in one run

\* a second context: another address and another state
OtherCtx == [address |-> NearPark, city_or_county |-> CtxCity, state |-> <<"M", "D">>]

SampleCtxs == {SampleCtx, OtherCtx}

\* documents for the repeated calls: one whose Location lines depend on the context,
\* one with transposed participants and guns, one with no section, one with an
\* unknown label, and one without the main block
RepeatDocs ==
  {MkDoc([present |-> TRUE,
          spans |-> <<[kind |-> "geo", lat |-> 38, lon |-> -77],
                      [kind |-> "text", text |-> CtxAddress]>>],
         NoDiv, NoDiv, NoDiv, NoDiv, NoDiv, NoDiv),
   MkDoc(NoDiv, [present |-> TRUE, uls |-> <<<<TypeVictim, Age30>>, <<TypeSubject, <<>>, NameAl>>>>],
         NoDiv, NoDiv,
         [present |-> TRUE, p |-> Text(Intro2), uls |-> <<<<TypeHandgun>>, <<TypeHandgun>>>>],
         NoDiv, NoDiv),
   MkDoc(NoDiv, NoDiv, NoDiv, NoDiv, NoDiv, NoDiv, NoDiv),
   MkDoc(NoDiv, [present |-> TRUE, uls |-> <<<<Height6>>>>], NoDiv, NoDiv, NoDiv, NoDiv, NoDiv),
   NoMainDoc}

\* self.extract_fields(text, ctx) as a method call: what it returns or raises, and
\* the attributes of the instance afterwards.  The method assigns nothing to self
\* and writes no module-level name.
extract_fields_method(self, soup, ctx) ==
  [ret |-> extract_fields(soup, ctx), self |-> self]

\* the call recorded with what it returned, the instance left as the call left it
Called(i, d, c, r) ==
  /\ instances' = [instances EXCEPT ![i] = r.self]
  /\ calls' = Append(calls, [self |-> i, text |-> d, ctx |-> c, ret |-> r.ret])

\* one call of extract_fields on instance i with document d and context c
CallExtract(i, d, c) ==
  /\ Len(calls) < MaxCalls
  /\ Called(i, d, c, extract_fields_method(instances[i], d, c))
  /\ UNCHANGED <<doc, outcome, arg, ret, sessVars>>

CallsInit ==
  /\ SessInit /\ platform = "Linux" /\ legacy = FALSE
  /\ doc = NoMainDoc /\ outcome = NotRun
  /\ arg = NoArg /\ ret = NotRun
  /\ ObjInit

CallsNext == \E i \in Instances, d \in RepeatDocs, c \in SampleCtxs : CallExtract(i, d, c)

CallsSpec == CallsInit /\ [][CallsNext]_vars

\* ------------------------------- the module-level functions on their own
MaxItems == 2   \* items of a list, pairs of a dict

\* items of a list handed to _stringify_list
SampleItems ==
  {<<>>, <<"a">>, <<"b">>, <<"a", "|">>, <<"|", "b">>, <<"|">>, <<"|", "|">>,
   <<"a", "|", "|", "b">>, <<"a", ":", ":", "b">>}

\* keys and values of a dict handed to _stringify_dict
SampleKeys ==
  {Num(0), Num(1), Text(<<"k">>), Text(<<"k", "|", "|">>), Text(<<"j", ":", ":", "k">>)}

SampleValues ==
  {Text(<<"v">>), Text(<<>>), Text(<<"v", "|">>), Text(<<":", "v">>),
   Text(<<"v", ":", ":", "w">>), Text(<<"v", "|", "|", "w">>)}

\* the dicts of at most MaxItems pairs, as sequences of items with distinct keys;
\* the callers pass no empty dict (every key of ds2 has a value in some group)
SampleDicts ==
  {d \in SeqsUpTo(SampleKeys \X SampleValues, MaxItems) :
     d # <<>> /\ \A i, j \in 1..Len(d) : i # j => d[i][1] # d[j][1]}

Args ==
  {[fn |-> "_stringify_list", lst |-> l] : l \in SeqsUpTo(SampleItems, MaxItems)}
  \cup {[fn |-> "_stringify_dict", d |-> d] : d \in SampleDicts}

FnInit ==
  /\ SessInit /\ platform = "Linux" /\ legacy = FALSE
  /\ doc = NoMainDoc /\ outcome = NotRun
  /\ arg \in Args /\ ret = NotRun
  /\ ObjInit

\* one call of _stringify_list(lst)
StringifyList ==
  /\ arg.fn = "_stringify_list" /\ ret = NotRun
  /\ ret' = _stringify_list(arg.lst)
  /\ UNCHANGED <<arg, doc, outcome, instances, calls, sessVars>>

\* one call of _stringify_dict(d)
StringifyDict ==
  /\ arg.fn = "_stringify_dict" /\ ret = NotRun
  /\ ret' = _stringify_dict(arg.d)
  /\ UNCHANGED <<arg, doc, outcome, instances, calls, sessVars>>

FnNext == StringifyList \/ StringifyDict

FnSpec == FnInit /\ [][FnNext]_vars

\* ------------------------------- the session without caller-side cancellation
\* Each call is a task of the event loop: a runnable task is eventually run, a
\* GET eventually returns or raises, a sleep eventually ends.
GetEnds(t) ==
  \/ \E resp \in Responses : GetReturns(t, resp)
  \/ \E exc \in TransportErrors : GetRaises(t, exc)

FairNext ==
  \/ Enter
  \/ Exit
  \/ \E t \in Rows : Call(t)
  \/ \E t \in Rows : IssueGet(t)
  \/ \E t \in Rows : GetEnds(t)
  \/ \E t \in Rows : WakeUp(t)

FairSpec ==
  /\ Init
  /\ [][FairNext]_vars
  /\ WF_vars(Enter)
  /\ \A t \in Rows :
       WF_vars(Call(t)) /\ WF_vars(IssueGet(t)) /\ WF_vars(GetEnds(t)) /\ WF_vars(WakeUp(t))

\* the event loop can run the next step of call u (start it, issue its GET, end its
\* sleep): the condition under which Call(u), IssueGet(u) and WakeUp(u) are taken
CanStep(u) ==
  /\ LoopFree
  /\ \/ pool = "open" /\ pc[u] = "idle"
     \/ pc[u] = "loop"
     \/ pc[u] = "sleep"

\* the `limit` among the connection options given to Stage2Session(**kwargs) and
\* handed to TCPConnector: the smallest limit a caller can ask for
conn_limit == 1

\* the client object that makes the GET of a call: a scraper created afresh for
\* every attempt (line 59), never self._sess
GetClient(t) == "cfscrape.create_scraper()"

\* the GETs in flight across the calls of the session
InFlight == Cardinality({t \in Rows : pc[t] = "in_get"})

\* ================================================================ claims
SchemaNames == Range(FieldNameList)

\* the schema names a section is responsible for
SectionFields(title) ==
  CASE title = "Location" -> {FieldNameList[1], FieldNameList[2], FieldNameList[3]}
    [] title = "Participants" -> {FieldNameList[i] : i \in 4..10}
    [] title = "Incident Characteristics" -> {FieldNameList[11]}
    [] title = "Notes" -> {FieldNameList[12]}
    [] title = "Guns Involved" -> {FieldNameList[i] : i \in 13..15}
    [] title = "Sources" -> {FieldNameList[16]}
    [] title = "District" -> {FieldNameList[i] : i \in 17..19}

Returned == outcome # NotRun /\ outcome.ok

\* C1: every Record extract_fields returns has exactly one field per schema name
\* and no other, the names in strictly ascending alphabetical order.
C1_RecordMatchesSchema ==
  Returned =>
    /\ Len(outcome.val) = Cardinality(SchemaNames)
    /\ {outcome.val[i].name : i \in 1..Len(outcome.val)} = SchemaNames
    /\ \A i \in 1..(Len(outcome.val) - 1) : StrLess(outcome.val[i].name, outcome.val[i + 1].name)

\* a Record was returned for a document with absent sections, present sections
\* and both null and non-null fields
C1_Witness ==
  /\ Returned
  /\ ~doc.divs["Location"].present /\ ~doc.divs["Notes"].present
  /\ doc.divs["Participants"].present /\ doc.divs["District"].present
  /\ \E i \in 1..Len(outcome.val) : outcome.val[i].value # None
  /\ \E i \in 1..Len(outcome.val) : outcome.val[i].value = None

\* C2: in the Record of a document that lacks an optional section, every field of
\* that section is null (and the absence itself is no error).
C2_AbsentSectionIsNull ==
  /\ (outcome # NotRun /\ doc.main /\ \A title \in SectionTitles : ~doc.divs[title].present)
       => outcome.ok
  /\ Returned =>
       \A title \in SectionTitles :
         ~doc.divs[title].present =>
           \A i \in 1..Len(outcome.val) :
             outcome.val[i].name \in SectionFields(title) => outcome.val[i].value = None

NamesOf(fields) == {fields[i].name : i \in 1..Len(fields)}

AllReturned(steps) == \A i \in 1..Len(steps) : steps[i].ok

\* every sub-extraction returned and the names handed to _normalize are not all
\* schema names
ProducesUnknownName(steps) ==
  AllReturned(steps) /\ ~(NamesOf(ProducedFields(steps)) \subseteq SchemaNames)

\* C3: when the sub-extractions produce a name outside the schema, extract_fields
\* raises AssertionError; no Record is returned for such a document.
C3_UnknownNameAsserts ==
  (outcome # NotRun /\ doc.main /\ ProducesUnknownName(SubExtractions(doc, SampleCtx)))
    => outcome = Raise("AssertionError")

\* an unknown participant label, an unknown gun label or a district label outside
\* the schema reached _normalize and the call raised
C3_Witness ==
  /\ outcome = Raise("AssertionError")
  /\ doc.main /\ doc.divs["Participants"].present
  /\ ProducesUnknownName(SubExtractions(doc, SampleCtx))

\* what the claims call an HTML content type: the media type before any
\* parameters is text/html, in any letter case
DeclaresHtml(header) ==
  /\ header # None
  /\ LET c == Lower(header.s)
         semi == Find(c, <<";">>)
     IN Strip(IF semi = -1 THEN c ELSE SliceTo(c, semi)) =
          <<"t", "e", "x", "t", "/", "h", "t", "m", "l">>

EndedWithResponse(t) == pc[t] = "done" /\ last[t].kind = "resp"

Retrying(t) == pc[t] \in {"sleep", "loop"} /\ result[t] = NoOutcome /\ sleeps[t] = attempts[t]

\* C4: after k responses with status >= 500 and then a 200 response with valid
\* HTML, the call has issued k+1 GETs, slept once after each of the k server errors
\* and returned the Record extracted from the body of the 200 response.
C4_RetriesThenSuccess ==
  \A t \in Rows :
    (last[t].kind = "resp" /\ nRetryExc[t] = 0)
    => IF last[t].resp.status >= 500
       THEN Retrying(t) /\ attempts[t] = n5xx[t]
       ELSE (/\ last[t].resp.status = 200
             /\ DeclaresHtml(last[t].resp.ctype) /\ MimeType(last[t].resp.ctype) \in HtmlMimeTypes
             /\ last[t].resp.text = GoodDoc)
            => /\ pc[t] = "done"
               /\ attempts[t] = n5xx[t] + 1
               /\ sleeps[t] = n5xx[t]
               /\ result[t] = [kind |-> "return",
                               record |-> extract_fields(last[t].resp.text, Context(RowOf(t))).val]

\* C5: a response with a status in 400..499 ends the call at once: no sleep
\* follows it, no further GET is issued, the extractor is not invoked and the call
\* ends in the failure raise_for_status raises for that status.
C5_ClientErrorEndsFetch ==
  \A t \in Rows :
    (last[t].kind = "resp" /\ last[t].resp.status \in 400..499)
    => /\ pc[t] = "done"
       /\ result[t] = [kind |-> "raise", exc |-> Exc("HTTPError", 0, last[t].resp.status)]
       /\ extractCalls[t] = 0
       /\ wait[t] = 0
       /\ sleeps[t] = attempts[t] - 1
       /\ attempts[t] = n5xx[t] + nRetryExc[t] + 1

\* a 403 that answered the second attempt of a call, the first having been retried
C5_Witness ==
  \E t \in Rows :
    /\ pc[t] = "done" /\ last[t].kind = "resp" /\ last[t].resp.status = 403
    /\ attempts[t] = 2 /\ sleeps[t] = 1 /\ result[t].kind = "raise"

\* the transport errors the claims call retryable: a cancellation, a connection
\* forcibly closed by the remote host, a timeout
ClaimedRetryable(exc) ==
  \/ exc.cls = "CancelledError"
  \/ exc.cls \in {"TimeoutError", "requests.ReadTimeout"}
  \/ (exc.cls = "ClientOSError" /\ exc.errno = 10054 /\ platform = "Windows")

\* C6: when scraper.get raises, _get sleeps once and retries if and only if the error
\* is a cancellation, a connection-forcibly-closed error or a timeout; any other
\* error ends the call at once with that error.
C6_RetryIffRetryable ==
  \A t \in Rows :
    last[t].kind = "exc" =>
      IF ClaimedRetryable(last[t].exc)
      THEN Retrying(t)
      ELSE /\ pc[t] = "done"
           /\ result[t] = [kind |-> "raise", exc |-> last[t].exc]
           /\ sleeps[t] = attempts[t] - 1

\* the latest attempt of the call met a condition the claims call transient
TransientOutcome(t) ==
  \/ last[t].kind = "resp" /\ last[t].resp.status >= 500
  \/ last[t].kind = "exc" /\ ClaimedRetryable(last[t].exc)

\* C7: no call ends in a failure whose cause is a transient condition (a server
\* error, a forcibly closed connection, a timeout, a cancellation).
C7_TransientNeverSurfaces ==
  \A t \in Rows :
    (pc[t] = "done" /\ result[t].kind = "raise")
    => ~TransientOutcome(t) /\ result[t].exc.cls # "CancelledError"

C8_Safety ==
  \A t \in Rows :
    /\ pc[t] = "done" => ~TransientOutcome(t)
    /\ TransientOutcome(t) => Retrying(t)
    /\ pc[t] = "in_get" => sleeps[t] = attempts[t] - 1

\* C8: the loop has no attempt ceiling: a call never ends on a retryable outcome, it
\* alternates GET and sleep as long as the outcomes are retryable ones, and under
\* fair scheduling it ends once the source answers with a status below 500 or a
\* non-retryable error.
C8_NoCeilingAndTermination ==
  /\ []C8_Safety
  /\ \A t \in Rows : <>(pc[t] = "done")

\* the failures C9 lists besides the 404
ListedFailure(t) ==
  \/ last[t].kind = "resp" /\ last[t].resp.status \in 400..499 /\ last[t].resp.status # 404
  \/ result[t].exc.cls = "NotImplementedError"
  \/ last[t].kind = "exc" /\ ~ClaimedRetryable(last[t].exc)
  \/ result[t].exc.cls = "AssertionError"

\* C9: a call that ends with a 404 response fails without the extraction-failed
\* diagnostic and traceback; a call that fails with another 4xx status, an
\* unsupported content type, a fatal transport error or an extractor assertion
\* prints them before the failure reaches the caller.
C9_DiagnosticExceptFor404 ==
  \A t \in Rows :
    (pc[t] = "done" /\ result[t].kind = "raise")
    => /\ (last[t].kind = "resp" /\ last[t].resp.status = 404) => ~logged[t]
       /\ ListedFailure(t) => logged[t]

\* C10: for a response with a status below 400 the extractor is invoked exactly
\* when the declared content type is HTML; otherwise the call fails with the
\* unsupported-content error and the extractor is not invoked.
C10_ExtractIffHtml ==
  \A t \in Rows :
    (EndedWithResponse(t) /\ last[t].resp.status < 400)
    => IF DeclaresHtml(last[t].resp.ctype)
       THEN extractCalls[t] = 1
       ELSE /\ extractCalls[t] = 0
            /\ result[t] = [kind |-> "raise", exc |-> Exc("NotImplementedError", 0, 0)]

\* C11: every failure a call ends in carries the identifier (the URL) of the row
\* the call was made with.
C11_FailureCarriesIdentifier ==
  \A t \in Rows :
    (pc[t] = "done" /\ result[t].kind = "raise")
    => CarriedUrl(result[t].exc, RowOf(t).incident_url) = [t |-> "url", url |-> RowOf(t).incident_url]

\* everything the model records about call t
CallState(t) ==
  <<pc[t], attempts[t], sleeps[t], n5xx[t], nRetryExc[t], wait[t], last[t], result[t],
    logged[t], extractCalls[t]>>

\* a step of one call, its failure and its cancellation included, changes nothing
\* of any other call
OnlyOwnCallChanges ==
  \A t, u \in Rows : (t # u /\ CallState(u)' # CallState(u)) => CallState(t)' = CallState(t)

\* two calls whose rows have the same context and whose last GET ended the same
\* way ended with the same outcome, whatever else happened to either
OutcomeFromOwnResponses ==
  \A t, u \in Rows :
    (pc[t] = "done" /\ pc[u] = "done" /\ last[t] = last[u])
    => result[t] = result[u] /\ logged[t] = logged[u]

\* C12: the failure or cancellation of one call never changes the outcome of
\* another: a call's outcome depends on its own row and the responses to its own
\* URL only, and a step of one call leaves every sibling as it was.
C12_SiblingsIndependent ==
  /\ []OutcomeFromOwnResponses
  /\ [][OnlyOwnCallChanges]_vars

\* one call was cancelled in its sleep, one failed on a response, and in both
\* cases the sibling returned a Record
C12_Witness ==
  \E t, u \in Rows :
    /\ t # u /\ pc[t] = "done" /\ pc[u] = "done"
    /\ result[t].kind = "raise" /\ last[t].kind = "sleep_cancelled"
    /\ result[u].kind = "return" /\ attempts[u] = 2

\* C13: while a call waits for the response of its GET, and while it is in its
\* backoff sleep, only that call is suspended: a sibling that has a step to take
\* (issue its GET, end its own sleep) can take it.
C13_OnlySelfSuspended ==
  \A t, u \in Rows :
    (t # u /\ pc[t] \in {"in_get", "sleep"} /\ pc[u] \in {"loop", "sleep"}) => CanStep(u)

\* a GET of call t is issued in this step only from the top of the loop, as the
\* next attempt, after the previous attempt (if any) ended in a retryable outcome and
\* the sleep that followed it is over
SequentialAttempt(t) ==
  attempts'[t] # attempts[t] =>
    /\ attempts'[t] = attempts[t] + 1
    /\ pc[t] = "loop" /\ pc'[t] = "in_get"
    /\ sleeps[t] = attempts[t] /\ wait[t] = 0
    /\ attempts[t] > 0 => TransientOutcome(t)

\* while a GET of call t is in flight no earlier attempt is pending and no sleep
\* runs; a sleep runs only after an attempt that ended in a retryable outcome
OneAttemptAtATime ==
  \A t \in Rows :
    /\ pc[t] = "in_get" => last[t] = NoOutcome /\ wait[t] = 0 /\ sleeps[t] = attempts[t] - 1
    /\ pc[t] = "sleep" => TransientOutcome(t) /\ wait[t] > 0 /\ sleeps[t] = attempts[t]

\* C14: within one call the attempts are strictly sequential: attempt n+1 is
\* issued only after attempt n ended in a retryable outcome and the backoff sleep
\* that follows it has finished, and no two GETs of the call overlap.
C14_AttemptsSequential ==
  /\ []OneAttemptAtATime
  /\ [][\A t \in Rows : SequentialAttempt(t)]_vars

\* a call in its third attempt, after two retried attempts and two finished sleeps
C14_Witness ==
  \E t \in Rows : pc[t] = "in_get" /\ attempts[t] = 3 /\ sleeps[t] = 2 /\ nRetryExc[t] = 2

\* C15: the connection pool opened on entering the scope is open as long as the
\* scope body runs and closed once the body has been left, whether by normal
\* return, by an exception or by cancellation.
C15_PoolReleasedOnEveryExit ==
  /\ left # "no" => pool = "closed"
  /\ (left = "no" /\ pool # "unopened") => pool = "open"
  /\ (left = "no" /\ \E t \in Rows : pc[t] # "idle") => pool = "open"

\* the scope was left by cancellation while one call was in its backoff sleep and
\* another had failed, and the pool is closed
C15_Witness ==
  /\ left = "cancellation" /\ pool = "closed"
  /\ \E t, u \in Rows : pc[t] = "sleep" /\ pc[u] = "done" /\ result[u].kind = "raise"

\* C16: the GETs in flight at the same time never exceed the connection limit of
\* the session's connection options, every GET being made through the session's
\* connection pool (which is therefore open while a GET is in flight).
C16_GetsBoundedByPool ==
  /\ InFlight <= conn_limit
  /\ \A t \in Rows : pc[t] = "in_get" => GetClient(t) = "self._sess" /\ pool = "open"

\* C17: a cancellation that reaches a call in its backoff sleep is handled by the
\* retry loop like a cancellation raised by the GET: it is classified as
\* '<canceled>' and retried, and does not end the call as an unclassified error.
C17_SleepCancellationClassified ==
  \A t \in Rows :
    last[t].kind = "sleep_cancelled"
    => /\ _status_from_exception(Exc("CancelledError", 0, 0), platform) = "<canceled>"
       /\ pc[t] \in {"sleep", "loop"}
       /\ result[t] = NoOutcome

\* the two-character separator sep occurs in s
HasSep(s, sep) == \E i \in 1..(Len(s) - 1) : s[i] = sep[1] /\ s[i + 1] = sep[2]

Reserved(s) == HasSep(s, <<":", ":">>) \/ HasSep(s, <<"|", "|">>)

RECURSIVE Glue(_, _)
\* the parts with sep between each two neighbours
Glue(parts, sep) ==
  IF parts = <<>> THEN <<>>
  ELSE IF Len(parts) = 1 THEN parts[1]
  ELSE Glue(SubSeq(parts, 1, Len(parts) - 1), sep) \o sep \o parts[Len(parts)]

\* the pairs of a dict as key::value strings
PairStrings(d) == [i \in 1..Len(d) |-> PyStr(d[i][1]) \o <<":", ":">> \o PyStr(d[i][2])]

\* C18: _stringify_list raises AssertionError when an item contains '||' and
\* _stringify_dict when a key or a value contains '::' or '||', and no string is
\* produced; otherwise the result is the items, or the key::value pairs, joined
\* with '||'.
C18_SeparatorsRefused ==
  ret # NotRun =>
    IF arg.fn = "_stringify_list"
    THEN IF \E i \in 1..Len(arg.lst) : HasSep(arg.lst[i], <<"|", "|">>)
         THEN ret = Raise("AssertionError")
         ELSE ret = Ok(Glue(arg.lst, <<"|", "|">>))
    ELSE IF \E i \in 1..Len(arg.d) : Reserved(PyStr(arg.d[i][1])) \/ Reserved(PyStr(arg.d[i][2]))
         THEN ret = Raise("AssertionError")
         ELSE ret = Ok(Glue(PairStrings(arg.d), <<"|", "|">>))

\* a dict of two pairs refused for a separator in one of its keys only
C18_Witness ==
  /\ arg.fn = "_stringify_dict" /\ ret = Raise("AssertionError") /\ Len(arg.d) = 2
  /\ \E i \in 1..Len(arg.d) : Reserved(PyStr(arg.d[i][1]))
  /\ \A i \in 1..Len(arg.d) : ~Reserved(PyStr(arg.d[i][2]))

RECURSIVE Split(_, _)
\* s.split(sep) as a reader of the encoding calls it: cut at each occurrence of
\* sep found from the left
Split(s, sep) ==
  IF Find(s, sep) = -1 THEN <<s>>
  ELSE <<SliceTo(s, Find(s, sep))>> \o Split(SliceFrom(s, Find(s, sep) + Len(sep)), sep)

\* what _stringify_list / _stringify_dict return or raise for the argument a
Stringified(a) ==
  IF a.fn = "_stringify_list" THEN _stringify_list(a.lst) ELSE _stringify_dict(a.d)

\* C19: an accepted list is what splitting its encoding on '||' gives, an accepted
\* dict is what splitting its encoding on '||' and each part on '::' gives, and no
\* two different accepted inputs have the same encoding.
C19_EncodingReversible ==
  (ret # NotRun /\ ret.ok) =>
    /\ IF arg.fn = "_stringify_list"
       THEN Split(ret.val, <<"|", "|">>) = arg.lst
       ELSE LET parts == Split(ret.val, <<"|", "|">>)
            IN [i \in 1..Len(parts) |-> Split(parts[i], <<":", ":">>)]
                 = [i \in 1..Len(arg.d) |-> <<PyStr(arg.d[i][1]), PyStr(arg.d[i][2])>>]
    /\ \A a \in Args :
         (a.fn = arg.fn /\ a # arg /\ Stringified(a).ok) => Stringified(a).val # ret.val

\* a line of an attribute list that carries a label
Labelled(line) == line # <<>> /\ Find(line, <<":">>) # -1

\* the label of a 'Label: value' line: the text before its first colon
LabelOf(line) == SliceTo(line, Find(line, <<":">>))

\* the text after the first colon of a line, without the blank that follows the colon
AfterColon(rest) == IF rest # <<>> /\ Head(rest) = " " THEN Tail(rest) ELSE rest

\* the value of a 'Label: value' line
ValueIn(line) == AfterColon(SliceFrom(line, Find(line, <<":">>) + 1))

\* the labels that occur in the attribute lists of a section
LabelsIn(uls) ==
  {LabelOf(uls[g][i]) : <<g, i>> \in {x \in (1..Len(uls)) \X (1..4) :
                                       x[2] <= Len(uls[x[1]]) /\ Labelled(uls[x[1]][x[2]])}}

\* list g of the section contains label L
ListHas(ul, L) == \E i \in 1..Len(ul) : Labelled(ul[i]) /\ LabelOf(ul[i]) = L

\* the positions, in ascending order, of the lists that contain label L
ListsWith(uls, L) == SelectSeq([g \in 1..Len(uls) |-> g], LAMBDA g : ListHas(uls[g], L))

\* 'g::value' for the value of label L in the list at position g (g counted from 1)
Entry(ul, L, g) ==
  StrOfNat(g - 1) \o <<":", ":">>
    \o ValueIn(ul[CHOOSE i \in 1..Len(ul) : Labelled(ul[i]) /\ LabelOf(ul[i]) = L])

\* the encoding of {g -> value of L in list g} over the lists gs, in the order of gs
EncodedOver(uls, L, gs) == Glue([k \in 1..Len(gs) |-> Entry(uls[gs[k]], L, gs[k])], <<"|", "|">>)

\* label L lower-cased and underscored, with the prefix of its section
AttributeField(L, prefix) ==
  prefix \o [i \in 1..Len(L) |-> IF L[i] = " " THEN "_" ELSE LowerChar(L[i])]

\* the Record rec has exactly one field of that name, and it holds that value
ExactlyOne(rec, name, value) ==
  /\ Cardinality({i \in 1..Len(rec) : rec[i].name = name}) = 1
  /\ \A i \in 1..Len(rec) : rec[i].name = name => rec[i].value = Text(value)

\* every label of the section has its one transposed field in the Record rec
SectionTransposed(rec, uls, prefix) ==
  \A L \in LabelsIn(uls) :
    ExactlyOne(rec, AttributeField(L, prefix), EncodedOver(uls, L, ListsWith(uls, L)))

SectionTransposedIfPresent(rec, div, prefix) ==
  div.present => SectionTransposed(rec, div.uls, prefix)

\* C20: in a returned Record, each attribute label L of the Participants or Guns
\* Involved section has exactly one field, named participant_ or gun_ plus L
\* lower-cased and underscored, whose value is g::value joined with '||' over the
\* lists g that contain L, in ascending g (g counted from 0).
C20_AttributesTransposed ==
  Returned =>
    /\ SectionTransposedIfPresent(outcome.val, doc.divs["Participants"], ParticipantPrefix)
    /\ SectionTransposedIfPresent(outcome.val, doc.divs["Guns Involved"], GunPrefix)

\* two gun lists each with 'Type: Handgun' under '2 guns involved.' gave
\* n_guns_involved = 2 and gun_type = '0::Handgun||1::Handgun'
C20_Witness ==
  /\ Returned
  /\ doc.divs["Guns Involved"].present
  /\ doc.divs["Guns Involved"].uls = <<<<TypeHandgun>>, <<TypeHandgun>>>>
  /\ \E i \in 1..Len(outcome.val) :
       /\ outcome.val[i].name = <<"g", "u", "n", "_", "t", "y", "p", "e">>
       /\ outcome.val[i].value =
            Text(<<"0", ":", ":", "H", "a", "n", "d", "g", "u", "n", "|", "|",
                   "1", ":", ":", "H", "a", "n", "d", "g", "u", "n">>)
  /\ \E i \in 1..Len(outcome.val) :
       /\ outcome.val[i].name = FieldNameList[13]
       /\ outcome.val[i].value = Num(2)

\* C22: every wait _compute_wait returns with the defaults is an integer of at
\* least 1, whatever the jitter draw, so every backoff sleep in progress lasts a
\* positive whole number of seconds.
C22_WaitPositive ==
  /\ \A fuzz \in (-MaxFuzz)..MaxFuzz :
       _compute_wait(fuzz) \in Nat \ {0}
  /\ \A t \in Rows : pc[t] = "sleep" => wait[t] \in Nat \ {0}

\* a call sleeps for the smallest wait: the jitter took the power below 1 and the
\* ceiling brought it to 1
C22_Witness ==
  \E t \in Rows : pc[t] = "sleep" /\ sleeps[t] >= 1 /\ wait[t] = 1

\* some name occurs more than once among the fields
HasRepeatedName(fields) ==
  \E i, j \in 1..Len(fields) : i # j /\ fields[i].name = fields[j].name

\* every sub-extraction returned and some name was produced more than once
ProducesRepeatedName(steps) == AllReturned(steps) /\ HasRepeatedName(ProducedFields(steps))

\* every sub-extraction returned and no name was produced twice
ProducesDistinctNames(steps) == AllReturned(steps) /\ ~HasRepeatedName(ProducedFields(steps))

\* the call of the current document raised if a name was produced twice, and
\* returned only if the names were distinct
RepeatedNameRefused(steps) ==
  /\ ProducesRepeatedName(steps) => outcome = Raise("AssertionError")
  /\ outcome.ok => ProducesDistinctNames(steps)

\* C23: when the sub-extractions produce a field name more than once, the call
\* raises AssertionError and returns no Record; a Record is returned only when
\* the produced names are all distinct.
C23_RepeatedNameAsserts ==
  (outcome # NotRun /\ doc.main) => RepeatedNameRefused(SubExtractions(doc, SampleCtx))

\* two free-text lines of the Location section both became location_description,
\* every name was a schema name, and the call raised
C23_Witness ==
  /\ outcome = Raise("AssertionError")
  /\ doc.main /\ doc.divs["Location"].present
  /\ Len(doc.divs["Location"].spans) = 2
  /\ \A i \in 1..2 : doc.divs["Location"].spans[i] = [kind |-> "text", text |-> NearPark]
  /\ ProducesRepeatedName(SubExtractions(doc, SampleCtx))
  /\ ~ProducesUnknownName(SubExtractions(doc, SampleCtx))

\* a non-empty line without a colon
Bare(line) == line # <<>> /\ Find(line, <<":">>) = -1

\* a 'Label: value' line whose label and value hold no '::' or '||' (and whose
\* value is a whole number where the section wants numbers)
SoundPair(line, numeric) ==
  /\ ~Reserved(LabelOf(line)) /\ ~Reserved(ValueIn(line))
  /\ numeric => IntParses(ValueIn(line))

\* an empty line, or a sound 'Label: value' line
SoundLine(line, numeric) == line = <<>> \/ (Labelled(line) /\ SoundPair(line, numeric))

\* the first k lines of an attribute list are sound and carry distinct labels
SoundUpTo(ul, k, numeric) ==
  /\ \A i \in 1..k : SoundLine(ul[i], numeric)
  /\ \A i, j \in 1..k : (i # j /\ Labelled(ul[i]) /\ Labelled(ul[j])) => LabelOf(ul[i]) # LabelOf(ul[j])

\* some list of the section has a bare line
HasBare(uls) == \E g \in 1..Len(uls) : \E i \in 1..Len(uls[g]) : Bare(uls[g][i])

\* some list of the section has a bare line and nothing before that line, in that
\* list or in an earlier one, is unsound
BareComesFirst(uls, numeric) ==
  \E g \in 1..Len(uls) : \E k \in 1..Len(uls[g]) :
    /\ Bare(uls[g][k])
    /\ SoundUpTo(uls[g], k - 1, numeric)
    /\ \A h \in 1..(g - 1) : SoundUpTo(uls[h], Len(uls[h]), numeric)

\* every list of the section is sound, and some list has an empty line
SoundWithEmptyLine(uls, numeric) ==
  /\ \A g \in 1..Len(uls) : SoundUpTo(uls[g], Len(uls[g]), numeric)
  /\ \E g \in 1..Len(uls) : \E i \in 1..Len(uls[g]) : uls[g][i] = <<>>

\* the attribute lists of the section at position s of the sub-extractions:
\* 5 Participants, 6 Guns Involved, 7 District (its lines as one list)
ListsOf(s) ==
  IF s = 5 THEN IF doc.divs["Participants"].present THEN doc.divs["Participants"].uls ELSE <<>>
  ELSE IF s = 6
       THEN IF doc.divs["Guns Involved"].present THEN doc.divs["Guns Involved"].uls ELSE <<>>
  ELSE IF doc.divs["District"].present THEN <<doc.divs["District"].lines>> ELSE <<>>

\* the '<n> gun(s) involved.' paragraph of the Guns Involved section is as expected
IntroSound(s) == s = 6 => doc.divs["Guns Involved"].p \in {Text(Intro1), Text(Intro2)}

\* the sub-extractions before position s returned
ReturnedBefore(steps, s) == \A i \in 1..(s - 1) : steps[i].ok

\* for the section at position s: a bare line lets no Record out, raises
\* AssertionError when it is the first fault the call meets, and a section of
\* sound lines with empty ones among them is extracted without error
BareRefused(steps, s) ==
  /\ HasBare(ListsOf(s)) => (~steps[s].ok /\ ~outcome.ok)
  /\ (BareComesFirst(ListsOf(s), s = 7) /\ IntroSound(s) /\ ReturnedBefore(steps, s))
       => (steps[s] = Raise("AssertionError") /\ outcome = Raise("AssertionError"))
  /\ (SoundWithEmptyLine(ListsOf(s), s = 7) /\ IntroSound(s)) => steps[s].ok

BareRefusedEverywhere(steps) == \A s \in {5, 6, 7} : BareRefused(steps, s)

\* C24: a non-empty line without a colon in a Participants, Guns Involved or
\* District section makes extract_fields raise AssertionError; no Record is
\* returned for such a document, and empty lines are skipped without error.
C24_BareLineAsserts ==
  (outcome # NotRun /\ doc.main) => BareRefusedEverywhere(SubExtractions(doc, SampleCtx))

\* the District section had the line 'Ward 5' after a sound line and the call
\* raised AssertionError
C24_Witness ==
  /\ outcome = Raise("AssertionError")
  /\ doc.main /\ doc.divs["District"].present
  /\ doc.divs["District"].lines = <<CongDistrict7, WardLine>>
  /\ BareComesFirst(ListsOf(7), TRUE)

\* the <<index, value>> pairs a transposed field value decodes to: its parts
\* between '||', each split at '::'
DecodedPairs(value) ==
  {Split(part, <<":", ":">>) : part \in Range(Split(value, <<"|", "|">>))}

\* the <<position, value>> pairs of label L in the section: one for each list that
\* has the label, under the zero-based position of that list among all the lists
PositionedValues(uls, L) ==
  {<<StrOfNat(g - 1),
     ValueIn(uls[g][CHOOSE i \in 1..Len(uls[g]) : Labelled(uls[g][i]) /\ LabelOf(uls[g][i]) = L])>> :
     g \in {h \in 1..Len(uls) : ListHas(uls[h], L)}}

\* every field of the section in the Record rec decodes to the positioned values
\* of its label
IndexedByPosition(rec, uls, prefix) ==
  \A L \in LabelsIn(uls) :
    \A i \in 1..Len(rec) :
      rec[i].name = AttributeField(L, prefix) =>
        (rec[i].value # None /\ DecodedPairs(rec[i].value.s) = PositionedValues(uls, L))

IndexedByPositionIfPresent(rec, div, prefix) ==
  div.present => IndexedByPosition(rec, div.uls, prefix)

\* C25: in a returned Record, the index of every value of a participant or gun
\* field is the zero-based position of the value's list in its section, counted
\* over all the lists: lists that are empty or lack the label are counted too, so
\* one index means the same list in every field.
C25_IndexIsListPosition ==
  Returned =>
    /\ IndexedByPositionIfPresent(outcome.val, doc.divs["Participants"], ParticipantPrefix)
    /\ IndexedByPositionIfPresent(outcome.val, doc.divs["Guns Involved"], GunPrefix)

\* the first participant list was empty and the second had 'Type: Victim' and
\* 'Age: 30': both fields carry the index 1
C25_Witness ==
  /\ Returned
  /\ doc.divs["Participants"].present
  /\ doc.divs["Participants"].uls = <<<<>>, <<TypeVictim, Age30>>>>
  /\ \E i \in 1..Len(outcome.val) :
       /\ outcome.val[i].name = FieldNameList[4]
       /\ outcome.val[i].value = Text(<<"1", ":", ":", "V", "i", "c", "t", "i", "m">>)
  /\ \E i \in 1..Len(outcome.val) :
       /\ outcome.val[i].name = FieldNameList[6]
       /\ outcome.val[i].value = Text(<<"1", ":", ":", "3", "0">>)

\* a 'Label: value' line in its usual form: a label, a colon, a blank, the value
UsualForm(line) ==
  /\ Labelled(line)
  /\ Len(line) > Len(LabelOf(line)) + 1
  /\ line[Len(LabelOf(line)) + 2] = " "

\* the first k lines are empty or of the usual form, with distinct labels (and
\* whole numbers as values where numbers are wanted)
UsualUpTo(lines, k, numeric) ==
  /\ \A i \in 1..k : lines[i] = <<>> \/ (UsualForm(lines[i]) /\ (numeric => IntParses(ValueIn(lines[i]))))
  /\ \A i, j \in 1..k :
       (i # j /\ Labelled(lines[i]) /\ Labelled(lines[j])) => LabelOf(lines[i]) # LabelOf(lines[j])

\* line k repeats the label of an earlier line
RepeatsAt(lines, k) ==
  /\ Labelled(lines[k])
  /\ \E i \in 1..(k - 1) : Labelled(lines[i]) /\ LabelOf(lines[i]) = LabelOf(lines[k])

\* some label occurs on two lines
HasRepeatedLabel(lines) == \E k \in 1..Len(lines) : RepeatsAt(lines, k)

\* the dict d has one item per non-empty line, in the order of the lines, each
\* under the label of its line
OneItemPerLine(d, nonempty) ==
  /\ Len(d) = Len(nonempty)
  /\ \A i \in 1..Len(d) : d[i][1] = LabelOf(nonempty[i])

\* C26: a label that occurs twice in the lines of one list makes _getdict raise
\* AssertionError; it returns no dict for such lines, and a dict it returns has
\* one item for each non-empty line, none replaced by a later line.
C26_RepeatedLabelAsserts ==
  ret # NotRun =>
    /\ HasRepeatedLabel(arg.lines) => ~ret.ok
    /\ \A k \in 1..Len(arg.lines) :
         (RepeatsAt(arg.lines, k) /\ UsualUpTo(arg.lines, k - 1, arg.apply = "int"))
           => ret = Raise("AssertionError")
    /\ ret.ok => OneItemPerLine(ret.val, SelectSeq(arg.lines, LAMBDA line : line # <<>>))

\* 'D: 7' then 'D: 8' with apply=int: the second line raised AssertionError
C26_Witness ==
  /\ ret = Raise("AssertionError")
  /\ arg.apply = "int"
  /\ arg.lines = <<<<"D", ":", " ", "7">>, <<"D", ":", " ", "8">>>>

\* the value _getdict should store for a line: the text after the first colon and
\* the blank that follows it, as it is or turned into a number
StoredValue(line, apply) ==
  IF apply = "int" THEN Num(IntOf(ValueIn(line))) ELSE Text(ValueIn(line))

\* item i of the dict d holds the label and the whole value of line i
WholeItem(d, nonempty, i, apply) ==
  /\ d[i][1] = LabelOf(nonempty[i])
  /\ d[i][2] = StoredValue(nonempty[i], apply)

WholeItems(d, nonempty, apply) ==
  /\ Len(d) = Len(nonempty)
  /\ \A i \in 1..Len(d) : WholeItem(d, nonempty, i, apply)

\* C27: for every 'Label: value' line _getdict stores, under the text before the
\* first colon, the whole text after that colon and its separator: later colons
\* stay in the value and no character of the value is lost, whether a blank,
\* another character or nothing follows the first colon.
C27_ValueKeptWhole ==
  (ret # NotRun /\ ret.ok) =>
    WholeItems(ret.val, SelectSeq(arg.lines, LAMBDA line : line # <<>>), arg.apply)

====
